---- MODULE Spec2Model ----
(***************************************************************************)
(* Fence-Game: the authoritative game-state update loop (GameState.update, *)
(* GameState.reset), the entities it mutates (Fence, Projectile), the      *)
(* collision primitives, and the snapshot codec a client applies           *)
(* (get_network_state / set_network_state).                                *)
(*                                                                         *)
(* Coordinates are Python floats in the source.  They are modelled in      *)
(* fixed point: one unit is 1/SCALE pixel.  pygame.Rect truncates its      *)
(* float arguments to whole pixels, which Trunc models; rectangles are     *)
(* therefore in whole pixels, positions and velocities in fixed point.     *)
(***************************************************************************)
EXTENDS Integers, Sequences, FiniteSets, TLC

VARIABLES
    players,      \* GameState.players: id -> record (host)
    fences,       \* GameState.fences: list of Fence (host)
    projectiles,  \* GameState.projectiles: list of Projectile (host)
    next_id,      \* Projectile.next_id in the host process
    game_over,    \* GameState.game_over
    winner,       \* GameState.winner (0 models None)
    scores,       \* GameState.scores
    now,          \* the last current_time_ticks handed to update()
    ticks,        \* number of update() calls made so far (bounds the run)
    ev,           \* what the last operation did (observation only)
    round,        \* per-round observation: hits counted since the last reset()
    issued,       \* observation: the projectiles Projectile.__init__ made on the host, in order
    ufence,       \* Fence unit: the Fence object being toggled
    fclock,       \* Fence unit: the clock handed to Fence.toggle
    fcall,        \* Fence unit: the last toggle call and what it returned
    cl,           \* the client process's GameState (a mirror fed by snapshots)
    last_received_state, \* run_client_mode: the newest decoded snapshot (<<>> for None)
    applied,      \* observation: the snapshot the client applied last, and how often in a row
    wire,         \* the bytes the client has sent that conn.recv has not returned yet
    partial_data, \* handle_client_connection: the buffer for incomplete messages
    client_input_buffer, \* the host's input mailbox (global, under client_lock)
    handler,      \* the receiver thread: "receiving" or "stopped"
    host_loop,    \* the server game loop: "running", "left" (break) or "crashed"
    app_running,  \* the global app_running flag
    rx,           \* observation: what the receiver thread's last read did, and all it decoded
    sent          \* observation: the payloads the client has sent, in order

vars == <<players, fences, projectiles, next_id, game_over, winner, scores,
          now, ticks, ev, round, issued, ufence, fclock, fcall, cl, last_received_state, applied,
          wire, partial_data, client_input_buffer, handler, host_loop, app_running, rx, sent>>

hostVars == <<players, fences, projectiles, next_id, game_over, winner, scores,
              now, ticks, ev, round, issued>>
fenceUnitVars == <<ufence, fclock, fcall>>
clientVars == <<cl, last_received_state, applied>>
inboxVars == <<wire, partial_data, client_input_buffer, handler, host_loop, app_running,
               rx, sent>>

-----------------------------------------------------------------------------
(* constants.py *)

SCALE == 100
WIDTH == 800
HEIGHT == 600
PLAYER_RADIUS == 15
PLAYER_SPEED == 4
MAX_HP == 10
INTERACTION_DISTANCE == 35
PLAYER_WALL_PROXIMITY_THRESHOLD == 5
PROJECTILE_RADIUS == 3
PROJECTILE_SPEED == 8
SHOOT_COOLDOWN_MS == 300
NORMAL_PROJECTILE_DAMAGE == 1
FIREBALL_RADIUS == PLAYER_RADIUS
\* FIREBALL_SPEED = PROJECTILE_SPEED * 0.75, in fixed point
FIREBALL_SPEED_FX == (PROJECTILE_SPEED * SCALE * 3) \div 4
FIREBALL_COOLDOWN_MS == 5000
FIREBALL_FALLBACK_RADIUS == 10
COOLDOWN_DURATION_MS == 5000
\* the small buffer added to the spawn offset of a projectile
SPAWN_BUFFER == 2
\* norm_factor = 0.70710678118 (and 1/hypot(1,1)), as a ratio
NORM_NUM == 70711
NORM_DEN == 100000

None == 0

-----------------------------------------------------------------------------
(* Arithmetic helpers *)

Abs(v) == IF v >= 0 THEN v ELSE -v
Max2(a, b) == IF a >= b THEN a ELSE b
Min2(a, b) == IF a <= b THEN a ELSE b

\* the element of a one-element set: Only({e(v) : v \in {d}}) is e with v
\* standing for the value of d, computed once
Only(S) == CHOOSE v \in S : TRUE

\* a whole number of pixels as a fixed-point value
Px(n) == n * SCALE

\* int(v) of a float: truncation toward zero
Trunc(v) == IF v >= 0 THEN v \div SCALE ELSE -((-v) \div SCALE)

\* v * norm_factor (v / hypot(1,1)): the diagonal share of a length v
Norm(v) == IF v >= 0 THEN (v * NORM_NUM) \div NORM_DEN
                     ELSE -(((-v) * NORM_NUM) \div NORM_DEN)

\* component d (-1, 0, 1) of a direction whose other component is o, scaled
\* to length v: d / hypot(d, o) * v
Along(d, o, v) == IF o = 0 THEN d * v ELSE d * Norm(v)

-----------------------------------------------------------------------------
(* collision.py *)

\* pygame.Rect(x, y, w, h) built from float corner coordinates
RectAt(fx, fy, w, h) == [x |-> Trunc(fx), y |-> Trunc(fy), w |-> w, h |-> h]

\* pygame.Rect.colliderect: touching edges do not collide
CollideRect(a, b) ==
    /\ a.x < b.x + b.w
    /\ a.x + a.w > b.x
    /\ a.y < b.y + b.h
    /\ a.y + a.h > b.y

\* check_circle_collision: squared centre distance < squared radius sum.
\* A distance of at least the radius sum on one axis already decides it,
\* which keeps the squares small.
check_circle_collision(x1, y1, r1, x2, y2, r2) ==
    LET dx == Abs(x1 - x2)
        dy == Abs(y1 - y2)
        rs == Px(r1 + r2)
    IN  /\ dx < rs
        /\ dy < rs
        /\ dx * dx + dy * dy < rs * rs

\* check_player_fence_collision: the player's bounding square against every
\* closed fence
check_player_fence_collision(px, py, radius, fs) ==
    LET player_rect == RectAt(px - Px(radius), py - Px(radius), 2 * radius, 2 * radius)
    IN  \E i \in 1..Len(fs) : ~fs[i].is_open /\ CollideRect(player_rect, fs[i].rect)

\* the rectangle a projectile carries: centred on (int(x), int(y))
ProjRect(p) == [x |-> Trunc(p.x) - p.radius, y |-> Trunc(p.y) - p.radius,
                w |-> 2 * p.radius, h |-> 2 * p.radius]

\* the indices of the closed fences a projectile's rectangle overlaps
CollidingFences(p, fs) ==
    {i \in 1..Len(fs) : ~fs[i].is_open /\ CollideRect(ProjRect(p), fs[i].rect)}

MinOf(S) == CHOOSE m \in S : \A k \in S : m <= k

\* get_colliding_fence: the first closed fence in list order that the active
\* projectile overlaps, as an index into the list; 0 for None
get_colliding_fence(p, fs) ==
    IF ~p.active THEN 0
    ELSE Only({IF hit = {} THEN 0 ELSE MinOf(hit) : hit \in {CollidingFences(p, fs)}})

\* is_player_close_to_fence: the player's square grown by the proximity
\* threshold overlaps the fence rectangle
is_player_close_to_fence(px, py, pr, fence) ==
    LET check_radius == pr + PLAYER_WALL_PROXIMITY_THRESHOLD
        player_check_rect == RectAt(px - Px(check_radius), py - Px(check_radius),
                                    2 * check_radius, 2 * check_radius)
    IN  CollideRect(player_check_rect, fence.rect)

\* check_projectile_player_collision: the id of the living player the active
\* projectile overlaps and does not own, player 1 first; 0 for None
check_projectile_player_collision(p, ps) ==
    IF ~p.active \/ p.radius <= 0 THEN 0
    ELSE IF /\ p.owner_id # 1
            /\ ps[1].hp > 0
            /\ check_circle_collision(p.x, p.y, p.radius, ps[1].x, ps[1].y, PLAYER_RADIUS)
         THEN 1
    ELSE IF /\ p.owner_id # 2
            /\ ps[2].hp > 0
            /\ check_circle_collision(p.x, p.y, p.radius, ps[2].x, ps[2].y, PLAYER_RADIUS)
         THEN 2
    ELSE 0

\* squared distance from the player's centre to the closest point of the
\* fence rectangle, or -1 when it is not below INTERACTION_DISTANCE squared
FenceDistSq(px, py, fence) ==
    LET r == fence.rect
        cx == Max2(Px(r.x), Min2(px, Px(r.x + r.w)))
        cy == Max2(Px(r.y), Min2(py, Px(r.y + r.h)))
        dx == Abs(px - cx)
        dy == Abs(py - cy)
        lim == Px(INTERACTION_DISTANCE)
    IN  IF dx < lim /\ dy < lim /\ dx * dx + dy * dy < lim * lim
        THEN dx * dx + dy * dy ELSE -1

\* the loop keeping the first fence that is in range
FirstInRange(px, py, fs, i, best, bestd) ==
    IF \E k \in i..Len(fs) : FenceDistSq(px, py, fs[k]) >= 0
    THEN CHOOSE k \in i..Len(fs) :
            /\ FenceDistSq(px, py, fs[k]) >= 0
            /\ \A j \in i..(k - 1) : FenceDistSq(px, py, fs[j]) < 0
    ELSE best

\* get_closest_fence_in_proximity: the loop over the fence list keeps the
\* first fence of strictly smallest distance; returns its index, 0 for -1
RECURSIVE ClosestFrom(_, _, _, _, _, _)
ClosestFrom(px, py, fs, i, best, bestd) ==
    IF i > Len(fs) THEN best
    ELSE LET d == FenceDistSq(px, py, fs[i])
         IN  IF d >= 0 /\ (best = 0 \/ d < bestd)
             THEN ClosestFrom(px, py, fs, i + 1, i, d)
             ELSE ClosestFrom(px, py, fs, i + 1, best, bestd)

get_closest_fence_in_proximity(px, py, fs) == ClosestFrom(px, py, fs, 1, 0, 0)

-----------------------------------------------------------------------------
(* entities.py: Fence *)

\* Fence.can_interact with the cooldown applied to every player alike
CooldownForAll(fence, player_id, t) ==
    IF fence.last_interactor = None THEN TRUE
    ELSE t - fence.last_interaction_time >= COOLDOWN_DURATION_MS

\* can_interact with the window closed at its end
CanInteractAfter(fence, player_id, t) ==
    IF fence.last_interactor = None THEN TRUE
    ELSE IF t - fence.last_interaction_time <= COOLDOWN_DURATION_MS
         THEN fence.last_interactor = player_id
         ELSE TRUE

\* Fence.can_interact
can_interact(fence, player_id, t) ==
    IF fence.last_interactor = None THEN TRUE
    ELSE IF t - fence.last_interaction_time < COOLDOWN_DURATION_MS
         THEN fence.last_interactor = player_id
         ELSE TRUE

\* a toggle that asks nobody
ToggleAlways(fence, player_id, t) ==
    [fence EXCEPT !.is_open = ~fence.is_open,
                  !.last_interactor = player_id,
                  !.last_interaction_time = t]

\* Fence.toggle: the fence after the call (unchanged when it returns False)
toggle(fence, player_id, t) ==
    IF can_interact(fence, player_id, t)
    THEN [fence EXCEPT !.is_open = ~fence.is_open,
                       !.last_interactor = player_id,
                       !.last_interaction_time = t]
    ELSE fence

\* a reset that only closes the fence
FenceCloseOnly(fence) == [fence EXCEPT !.is_open = FALSE]

\* Fence.reset
FenceReset(fence) ==
    [fence EXCEPT !.is_open = FALSE, !.last_interactor = None,
                  !.last_interaction_time = 0]

\* Fence.__init__
NewFence(id, x, y, w, h) ==
    [id |-> id, rect |-> [x |-> x, y |-> y, w |-> w, h |-> h],
     is_open |-> FALSE, last_interactor |-> None, last_interaction_time |-> 0]

-----------------------------------------------------------------------------
(* entities.py: Projectile *)

\* Projectile.__init__: the sprite sheet of the fireball is not part of the
\* sources, so the fireball takes the fallback radius (the branch taken when
\* the frames could not be loaded)
NewProjectile(id, x, y, vx, vy, owner_id, proj_type) ==
    [id |-> id, x |-> x, y |-> y, vx |-> vx, vy |-> vy, owner_id |-> owner_id,
     type |-> proj_type, active |-> TRUE,
     radius |-> IF proj_type = "fireball" THEN FIREBALL_FALLBACK_RADIUS
                ELSE PROJECTILE_RADIUS]

\* the off-screen test of Projectile.update
OffScreen(p) ==
    LET r == ProjRect(p)
    IN  r.x + r.w < 0 \/ r.x > WIDTH \/ r.y + r.h < 0 \/ r.y > HEIGHT

\* Projectile.update: integrate, then deactivate when fully off the field
ProjectileUpdate(p) ==
    IF ~p.active THEN p
    ELSE LET q == [p EXCEPT !.x = p.x + p.vx, !.y = p.y + p.vy]
         IN  IF OffScreen(q) THEN [q EXCEPT !.active = FALSE] ELSE q

-----------------------------------------------------------------------------
(* Damage *)

RECURSIVE Pow2Floor(_)
\* the largest power of two that is at most q (q >= 1)
Pow2Floor(q) == IF q < 2 THEN 1 ELSE 2 * Pow2Floor(q \div 2)

\* hp * FIREBALL_DAMAGE_FACTOR as the double it is.  1.0 / 3.0 is the double
\* just below 1/3, (2^54 - 1) / (3 * 2^54), so the exact product is
\* hp/3 - hp / (3 * 2^54).  For hp = 3q that is q minus q units of 2^-54,
\* which rounds to the double q when the deficit is at most half the spacing
\* of the doubles below q, and to the double just below q otherwise.  The
\* result is [whole, part]: the integer below (or equal to) it, and whether
\* a fractional part remains.
TimesDamageFactor(hp) ==
    LET q == hp \div 3
        r == hp % 3
        half == IF q = Pow2Floor(q) THEN q ELSE 2 * Pow2Floor(q)
    IN  IF r # 0 THEN [whole |-> q, part |-> TRUE]
        ELSE IF q = 0 THEN [whole |-> 0, part |-> FALSE]
        ELSE IF q <= half THEN [whole |-> q, part |-> FALSE]
        ELSE [whole |-> q - 1, part |-> TRUE]

\* rounding down where math.ceil rounds up
Floor(v) == v.whole

\* math.ceil
Ceil(v) == IF v.part THEN v.whole + 1 ELSE v.whole

\* math.ceil(target_player["hp"] * constants.FIREBALL_DAMAGE_FACTOR)
FireballDamage(hp) == Ceil(TimesDamageFactor(hp))

\* the damage of a hit with the normal damage counted twice
DamageDoubled(proj_type, hp) ==
    IF proj_type = "fireball" THEN FireballDamage(hp) ELSE 2 * NORMAL_PROJECTILE_DAMAGE

\* the damage of a hit by a projectile of the given type
Damage(proj_type, hp) ==
    IF proj_type = "fireball" THEN FireballDamage(hp) ELSE NORMAL_PROJECTILE_DAMAGE

-----------------------------------------------------------------------------
(* GameState.update: movement *)

KeyDx(keys) == (IF "d" \in keys THEN 1 ELSE 0) - (IF "a" \in keys THEN 1 ELSE 0)
KeyDy(keys) == (IF "s" \in keys THEN 1 ELSE 0) - (IF "w" \in keys THEN 1 ELSE 0)

\* the candidate coordinate taken as it is
NoClamp(v, limit) == v

\* max(player_r, min(limit - player_r, v))
Clamp(v, limit) == Max2(Px(PLAYER_RADIUS), Min2(Px(limit - PLAYER_RADIUS), v))

\* the clamped candidate position of a player for the keys held
PotentialX(player, keys) ==
    Clamp(player.x + Along(KeyDx(keys), KeyDy(keys), Px(PLAYER_SPEED)), WIDTH)
PotentialY(player, keys) ==
    Clamp(player.y + Along(KeyDy(keys), KeyDx(keys), Px(PLAYER_SPEED)), HEIGHT)

\* a candidate position tested against the other player only
BlockedByPlayer(x, y, other, fs) ==
    /\ other.hp > 0
    /\ check_circle_collision(x, y, PLAYER_RADIUS, other.x, other.y, PLAYER_RADIUS)

\* a candidate position collides: with the other living player as a circle,
\* or with a closed fence as the bounding square
Blocked(x, y, other, fs) ==
    \/ /\ other.hp > 0
       /\ check_circle_collision(x, y, PLAYER_RADIUS, other.x, other.y, PLAYER_RADIUS)
    \/ check_player_fence_collision(x, y, PLAYER_RADIUS, fs)

\* the candidate coordinate accepted whatever the collision test said
AcceptAxis(collision, old, potential) == potential

\* if not collision: accept the candidate coordinate, else keep the old one
ResolveAxis(collision, old, potential) == IF collision THEN old ELSE potential

\* a facing that any keys overwrite, pressed or not
TurnsAlways(move_dx, move_dy) == TRUE

\* the keys give a direction to face
Turns(move_dx, move_dy) == move_dx # 0 \/ move_dy # 0

\* the movement of one living player: facing, then X alone, then Y at the
\* X just resolved
MovePlayer(ps, fs, p_id, keys) ==
    LET player == ps[p_id]
        other == ps[3 - p_id]
        move_dx == KeyDx(keys)
        move_dy == KeyDy(keys)
        potential_x == PotentialX(player, keys)
        potential_y == PotentialY(player, keys)
        collision_x == Blocked(potential_x, player.y, other, fs)
        new_x == ResolveAxis(collision_x, player.x, potential_x)
        collision_y == Blocked(new_x, potential_y, other, fs)
        new_y == ResolveAxis(collision_y, player.y, potential_y)
        faced == IF Turns(move_dx, move_dy)
                 THEN [player EXCEPT !.last_dx = move_dx, !.last_dy = move_dy]
                 ELSE player
    IN  IF player.hp <= 0 THEN ps
        ELSE [ps EXCEPT ![p_id] = [faced EXCEPT !.x = new_x, !.y = new_y]]

\* what the movement of one player had to decide: where the player stood,
\* the candidate position, and whether the horizontal-only and the
\* vertical-only displacement from there collide, and whether the vertical
\* displacement taken at the candidate X collides
MoveObs(ps, fs, p_id, keys) ==
    LET player == ps[p_id]
        other == ps[3 - p_id]
    IN  [alive |-> player.hp > 0,
         dx |-> KeyDx(keys), dy |-> KeyDy(keys),
         old_x |-> player.x, old_y |-> player.y,
         potential_x |-> PotentialX(player, keys),
         potential_y |-> PotentialY(player, keys),
         h_only |-> Blocked(PotentialX(player, keys), player.y, other, fs),
         v_only |-> Blocked(player.x, PotentialY(player, keys), other, fs),
         v_joint |-> Blocked(PotentialX(player, keys), PotentialY(player, keys),
                             other, fs)]

-----------------------------------------------------------------------------
(* GameState.update: actions.  st carries players, fences, projectiles,   *)
(* next_id and frame (projectiles_this_frame, as indices into the list),   *)
(* and the observation toggles (the Fence.toggle calls made, in order).    *)

\* interact: toggle the closest fence in range, if any
Interact(st, p_id, inp, t) ==
    LET player == st.players[p_id]
        closest == get_closest_fence_in_proximity(player.x, player.y, st.fences)
    IN  IF inp.action_interact /\ closest # 0
        THEN Only({[st EXCEPT !.fences[closest] = toggled,
                              !.toggles = Append(@,
                                  [fence |-> closest, player_id |-> p_id,
                                   before |-> st.fences[closest],
                                   returned |-> toggled # st.fences[closest]])] :
                     toggled \in {toggle(st.fences[closest], p_id, t)}})
        ELSE st

\* a projectile of the given type leaving the player along the facing
Spawn(st, p_id, proj_type) ==
    LET player == st.players[p_id]
        dx == player.last_dx
        dy == player.last_dy
        speed == IF proj_type = "fireball" THEN FIREBALL_SPEED_FX ELSE Px(PROJECTILE_SPEED)
        offset_dist == IF proj_type = "fireball"
                       THEN Px(PLAYER_RADIUS + FIREBALL_RADIUS + SPAWN_BUFFER)
                       ELSE Px(PLAYER_RADIUS + PROJECTILE_RADIUS + SPAWN_BUFFER)
        new_proj == NewProjectile(st.next_id,
                                  player.x + Along(dx, dy, offset_dist),
                                  player.y + Along(dy, dx, offset_dist),
                                  Along(dx, dy, speed), Along(dy, dx, speed),
                                  p_id, proj_type)
        grown == [st EXCEPT !.projectiles = Append(@, new_proj), !.next_id = @ + 1]
    IN  IF proj_type = "fireball"
        THEN [grown EXCEPT !.frame = Append(@, Len(grown.projectiles))]
        ELSE grown

ZeroFacing(player) == player.last_dx = 0 /\ player.last_dy = 0

\* shoot fireball: gated by its cooldown; the timer is set before the
\* zero-facing guard
ShootFireball(st, p_id, inp, t) ==
    IF inp.action_fireball /\ t - st.players[p_id].last_fireball_time > FIREBALL_COOLDOWN_MS
    THEN LET st1 == [st EXCEPT !.players[p_id].last_fireball_time = t]
         IN  IF ZeroFacing(st1.players[p_id]) THEN st1 ELSE Spawn(st1, p_id, "fireball")
    ELSE st

\* both shots let through at the cooldown itself
ShootAtCooldown(st, p_id, inp, t) ==
    LET player == st.players[p_id]
        shot == IF inp.action_shoot /\ t - player.last_shot_time >= SHOOT_COOLDOWN_MS
                THEN Spawn([st EXCEPT !.players[p_id].last_shot_time = t],
                           p_id, "normal")
                ELSE st
    IN  IF inp.action_fireball
           /\ t - player.last_fireball_time >= FIREBALL_COOLDOWN_MS
        THEN Spawn([shot EXCEPT !.players[p_id].last_fireball_time = t],
                   p_id, "fireball")
        ELSE shot

\* shoot normal: gated by its cooldown; the zero-facing guard leaves the
\* player's turn (continue), so the fireball is skipped as well
ShootThenFireball(st, p_id, inp, t) ==
    IF inp.action_shoot /\ t - st.players[p_id].last_shot_time > SHOOT_COOLDOWN_MS
    THEN LET st1 == [st EXCEPT !.players[p_id].last_shot_time = t]
         IN  IF ZeroFacing(st1.players[p_id]) THEN st1
             ELSE Only({ShootFireball(shot, p_id, inp, t) :
                          shot \in {Spawn(st1, p_id, "normal")}})
    ELSE ShootFireball(st, p_id, inp, t)

\* one living player's actions, in the order interact, shoot, fireball
ActPlayer(st, p_id, inp, t) ==
    IF st.players[p_id].hp <= 0 THEN st
    ELSE Only({ShootThenFireball(toggled, p_id, inp, t) :
                 toggled \in {Interact(st, p_id, inp, t)}})

ActPhase(st, in1, in2, t) ==
    Only({ActPlayer(acted1, 2, in2, t) : acted1 \in {ActPlayer(st, 1, in1, t)}})

-----------------------------------------------------------------------------
(* GameState.update: hits.  st carries players, projectiles, game_over,   *)
(* winner, scores, remove (projectiles_to_remove), done (the loop was     *)
(* left by break) and the observations hits, fev and order (the list      *)
(* indices in the order the projectile loop handled them).                *)

\* the damage added where it is subtracted
HpGain(hp, damage) == hp + damage

\* target_player["hp"] -= damage
HpLeft(hp, damage) == hp - damage

\* the player that was hit named as the winner
WinnerIsTarget(proj, target) == target

\* self.winner = proj.owner_id: the owner of the projectile wins
Winner(proj, target) == proj.owner_id

\* a hit that leaves the projectile active
ApplyHitKeepsActive(st, i, target, phase) ==
    LET proj == st.projectiles[i]
        hp == st.players[target].hp
        damage == Damage(proj.type, hp)
        left == HpLeft(hp, damage)
        hit == [target |-> target, owner |-> proj.owner_id, type |-> proj.type,
                hp |-> hp, damage |-> damage, phase |-> phase, proj |-> proj.id,
                kill |-> left <= 0]
        st1 == [st EXCEPT !.hits = Append(@, hit)]
    IN  IF left <= 0
        THEN [st1 EXCEPT !.players[target].hp = 0,
                         !.game_over = TRUE,
                         !.winner = proj.owner_id,
                         !.scores[proj.owner_id] = @ + 1]
        ELSE [st1 EXCEPT !.players[target].hp = left]

\* a hit that takes the hp and leaves the round running
ApplyHitKeepsRound(st, i, target, phase) ==
    LET proj == st.projectiles[i]
        hp == st.players[target].hp
        damage == Damage(proj.type, hp)
        left == HpLeft(hp, damage)
        hit == [target |-> target, owner |-> proj.owner_id, type |-> proj.type,
                hp |-> hp, damage |-> damage, phase |-> phase, proj |-> proj.id,
                kill |-> left <= 0]
    IN  [st EXCEPT !.hits = Append(@, hit),
                   !.projectiles[i].active = FALSE,
                   !.players[target].hp = IF left <= 0 THEN 0 ELSE left]

\* a damaging hit of projectile i on player target: hp, the clamp at 0,
\* game over, winner and score; the projectile is deactivated either way
ApplyHit(st, i, target, phase) ==
    LET proj == st.projectiles[i]
        hp == st.players[target].hp
        damage == Damage(proj.type, hp)
        left == HpLeft(hp, damage)
        hit == [target |-> target, owner |-> proj.owner_id, type |-> proj.type,
                hp |-> hp, damage |-> damage, phase |-> phase, proj |-> proj.id,
                kill |-> left <= 0]
        st1 == [st EXCEPT !.hits = Append(@, hit),
                          !.projectiles[i].active = FALSE]
    IN  IF left <= 0
        THEN [st1 EXCEPT !.players[target].hp = 0,
                         !.game_over = TRUE,
                         !.winner = Winner(proj, target),
                         !.scores[Winner(proj, target)] = @ + 1]
        ELSE [st1 EXCEPT !.players[target].hp = left]

\* update() without the immediate check
ImmediateSkipped(st, frame, k) == st

\* the immediate check of the fireballs spawned this frame, from frame
\* position k on; game over leaves the loop
RECURSIVE ImmediateFrom(_, _, _)
ImmediateFrom(st, frame, k) ==
    IF k > Len(frame) \/ st.game_over THEN st
    ELSE LET i == frame[k]
             fireball == st.projectiles[i]
             target_player_id == 3 - fireball.owner_id
         IN  IF /\ fireball.type = "fireball"
                /\ fireball.active
                /\ check_projectile_player_collision(fireball, st.players) = target_player_id
             THEN Only({ImmediateFrom(hit, frame, k + 1) :
                          hit \in {ApplyHit(st, i, target_player_id, "immediate")}})
             ELSE ImmediateFrom(st, frame, k + 1)

\* the ids of the projectiles of a list that are active
ActiveIds(ps) == {ps[j].id : j \in {k \in 1..Len(ps) : ps[k].active}}

\* what the fence step of the loop saw for one projectile that overlaps a
\* fence: the closed fences overlapped, those of them its owner is close
\* to, whether any open fence is overlapped, and whether the projectile was
\* kept active (and so went on to the player test)
FenceSight(p, ps, fs, kept) ==
    [proj |-> p.id,
     kept |-> kept,
     closed |-> CollidingFences(p, fs),
     near |-> {i \in CollidingFences(p, fs) :
                 is_player_close_to_fence(ps[p.owner_id].x, ps[p.owner_id].y,
                                          PLAYER_RADIUS, fs[i])},
     open |-> \E i \in 1..Len(fs) : fs[i].is_open /\ CollideRect(ProjRect(p), fs[i].rect)]

\* one projectile that is still active after its update (st1 holds it at
\* index i): the fence logic, then the player test
ProjCollide(st1, fs, i) ==
    LET moved == st1.projectiles[i]
        collided_fence == get_colliding_fence(moved, fs)
        owner == st1.players[moved.owner_id]
        owner_is_near ==
            /\ collided_fence # 0
            /\ is_player_close_to_fence(owner.x, owner.y, PLAYER_RADIUS,
                                        fs[collided_fence])
        seen == \E k \in 1..Len(fs) : CollideRect(ProjRect(moved), fs[k].rect)
        hit_player_id == check_projectile_player_collision(moved, st1.players)
        st2 == IF seen
               THEN [st1 EXCEPT !.fev = Append(@, FenceSight(moved, st1.players,
                                                            fs, TRUE))]
               ELSE st1
    IN  IF collided_fence # 0 /\ ~owner_is_near
        THEN [st1 EXCEPT !.projectiles[i].active = FALSE,
                         !.remove = @ \cup {moved.id},
                         !.fev = Append(@, FenceSight(moved, st1.players, fs, FALSE))]
        ELSE IF hit_player_id = 0 THEN st2
        ELSE Only({IF st3.game_over
                   THEN [st3 EXCEPT !.remove = @ \cup {moved.id}
                                                 \cup ActiveIds(st3.projectiles),
                                    !.done = TRUE]
                   ELSE [st3 EXCEPT !.remove = @ \cup {moved.id}] :
                     st3 \in {ApplyHit(st2, i, hit_player_id, "tick")}})

\* the body of the projectile loop for index i: an inactive projectile is
\* marked for removal; an active one is updated, and marked when the update
\* deactivated it
ProjStep(st, fs, i) ==
    IF ~st.projectiles[i].active
    THEN [st EXCEPT !.remove = @ \cup {st.projectiles[i].id}]
    ELSE Only({IF ~moved.active
               THEN [st EXCEPT !.projectiles[i] = moved,
                               !.order = Append(@, i),
                               !.remove = @ \cup {moved.id}]
               ELSE ProjCollide([st EXCEPT !.projectiles[i] = moved,
                                           !.order = Append(@, i)], fs, i) :
                 moved \in {ProjectileUpdate(st.projectiles[i])}})

\* the loop run from index k up to index i
RECURSIVE ProjLoopUp(_, _, _, _)
ProjLoopUp(st, fs, i, k) ==
    IF k > i \/ st.done THEN st
    ELSE Only({ProjLoopUp(next, fs, i, k + 1) : next \in {ProjStep(st, fs, k)}})

\* the projectile loop run forwards over the list
ProjLoopForward(st, fs, i) == ProjLoopUp(st, fs, i, 1)

\* the projectile loop, from index i down to 1; game over leaves it
RECURSIVE ProjLoop(_, _, _)
ProjLoop(st, fs, i) ==
    IF i < 1 \/ st.done THEN st
    ELSE Only({ProjLoop(next, fs, i - 1) : next \in {ProjStep(st, fs, i)}})

\* the final filter: only when the removal set is not empty
Cleanup(ps, remove) ==
    IF remove # {} THEN SelectSeq(ps, LAMBDA p : p.id \notin remove) ELSE ps


-----------------------------------------------------------------------------
(* GameState.update as a whole: the state after the call and what it did *)

HostState == [players |-> players, fences |-> fences, projectiles |-> projectiles,
              next_id |-> next_id, game_over |-> game_over, winner |-> winner,
              scores |-> scores]

\* the phases of update() past the game-over guard: movement, actions, the
\* immediate fireball check, the projectile loop (skipped once the immediate
\* check ended the game) and the final filter
UpdateLive(gs, in1, in2, t) ==
    Only({Only({Only({Only({
        [gs |-> [players |-> looped.players,
                 fences |-> acted.fences,
                 projectiles |-> Cleanup(looped.projectiles, looped.remove),
                 next_id |-> acted.next_id,
                 game_over |-> looped.game_over,
                 winner |-> looped.winner,
                 scores |-> looped.scores],
         hits |-> looped.hits, fev |-> looped.fev,
         order |-> looped.order, listed |-> looped.projectiles,
         toggles |-> acted.toggles,
         moves |-> <<MoveObs(gs.players, gs.fences, 1, in1.keys),
                     MoveObs(moved1, gs.fences, 2, in2.keys)>>] :
        looped \in {IF imm.game_over THEN imm
                    ELSE ProjLoop(imm, acted.fences, Len(imm.projectiles))}}) :
        imm \in {ImmediateFrom(
                    [players |-> acted.players, projectiles |-> acted.projectiles,
                     game_over |-> gs.game_over, winner |-> gs.winner,
                     scores |-> gs.scores, remove |-> {}, done |-> FALSE,
                     hits |-> <<>>, fev |-> <<>>, order |-> <<>>],
                    acted.frame, 1)}}) :
        acted \in {ActPhase(
                    [players |-> MovePlayer(moved1, gs.fences, 2, in2.keys),
                     fences |-> gs.fences, projectiles |-> gs.projectiles,
                     next_id |-> gs.next_id, frame |-> <<>>, toggles |-> <<>>],
                    in1, in2, t)}}) :
        moved1 \in {MovePlayer(gs.players, gs.fences, 1, in1.keys)}})

\* update() without its game-over guard
UpdateUnguarded(gs, in1, in2, t) == UpdateLive(gs, in1, in2, t)

\* GameState.update: nothing happens once the game is over
UpdateResult(gs, in1, in2, t) ==
    IF gs.game_over
    THEN [gs |-> gs, hits |-> <<>>, fev |-> <<>>, moves |-> <<>>,
          order |-> <<>>, listed |-> <<>>, toggles |-> <<>>]
    ELSE UpdateLive(gs, in1, in2, t)

-----------------------------------------------------------------------------
(* The snapshot: get_network_state, the JSON codec, set_network_state *)

\* str(p_id) and int(p_id_str) on the two player ids
StrOf(p_id) == IF p_id = 1 THEN "1" ELSE "2"
IntOf(k) == IF k = "1" THEN 1 ELSE 2

\* Fence.get_state: the rectangle goes out as the tuple (x, y, width, height)
FenceGetState(f) ==
    [id |-> f.id, is_open |-> f.is_open, last_interactor |-> f.last_interactor,
     last_interaction_time |-> f.last_interaction_time,
     rect |-> <<f.rect.x, f.rect.y, f.rect.w, f.rect.h>>]

\* Fence.set_state taking is_open only
FenceSetOpenOnly(f, state) == [f EXCEPT !.is_open = state.is_open]

\* Fence.set_state: the rectangle is rebuilt when four numbers arrive
FenceSetState(f, state) ==
    [f EXCEPT !.is_open = state.is_open,
              !.last_interactor = state.last_interactor,
              !.last_interaction_time = state.last_interaction_time,
              !.rect = IF Len(state.rect) = 4
                       THEN [x |-> state.rect[1], y |-> state.rect[2],
                             w |-> state.rect[3], h |-> state.rect[4]]
                       ELSE @]

\* Projectile.get_state
ProjGetState(p) ==
    [id |-> p.id, x |-> p.x, y |-> p.y, vx |-> p.vx, vy |-> p.vy,
     owner_id |-> p.owner_id, active |-> p.active, type |-> p.type,
     radius |-> p.radius]

\* Projectile.set_state: a changed type re-initialises the radius from the
\* type (the received radius is then ignored); otherwise a positive received
\* radius is taken
ProjSetState(p, state) ==
    LET type_changed == state.type # p.type
    IN  [p EXCEPT !.type = state.type,
                  !.x = state.x, !.y = state.y, !.vx = state.vx, !.vy = state.vy,
                  !.active = state.active, !.owner_id = state.owner_id,
                  !.radius = IF type_changed
                             THEN (IF state.type = "fireball"
                                   THEN FIREBALL_FALLBACK_RADIUS ELSE PROJECTILE_RADIUS)
                             ELSE IF state.radius > 0 THEN state.radius ELSE @]

\* the list of the active projectiles
ActiveOnly(ps) == SelectSeq(ps, LAMBDA p : p.active)

\* GameState.get_network_state: active projectiles only, players under
\* string keys, the host's id counter
get_network_state(gs) ==
    [players |-> [k \in {"1", "2"} |-> gs.players[IntOf(k)]],
     fences |-> [i \in 1..Len(gs.fences) |-> FenceGetState(gs.fences[i])],
     projectiles |-> [i \in 1..Len(ActiveOnly(gs.projectiles)) |->
                         ProjGetState(ActiveOnly(gs.projectiles)[i])],
     game_over |-> gs.game_over,
     winner |-> gs.winner,
     scores |-> gs.scores,
     next_proj_id |-> gs.next_id]

\* A JSON value is a dict (the record of its keys) or a number.
Number(n) == [number |-> n]

\* isinstance(v, dict)
IsDict(v) == "number" \notin DOMAIN v

\* d.get(k, default) on a dict
EmptyDict == [k \in {} |-> FALSE]
Get(d, k, default) == IF k \in DOMAIN d THEN d[k] ELSE default

\* Bytes travel as a sequence of tokens: a brace, the newline, the content
\* of a document between its braces, or anything else.
Byte(c) == [byte |-> c]
NEWLINE == Byte("\n")
Content(doc) == [content |-> doc]

\* json.dumps(doc).encode('utf-8'): a dict between its braces, a number bare
json_dumps(doc) ==
    IF IsDict(doc) THEN <<Byte("{"), Content(doc), Byte("}")>> ELSE <<Content(doc)>>

\* json.loads(text.decode('utf-8')): the document of a complete text, as a
\* one-element sequence; the empty sequence where it raises
json_loads(text) ==
    IF /\ Len(text) = 3
       /\ text[1] = Byte("{")
       /\ text[3] = Byte("}")
       /\ "content" \in DOMAIN text[2]
       /\ IsDict(text[2].content)
    THEN <<text[2].content>>
    ELSE IF /\ Len(text) = 1
            /\ "content" \in DOMAIN text[1]
            /\ ~IsDict(text[1].content)
         THEN <<text[1].content>>
    ELSE <<>>

\* encode_data: json.dumps writes the integer keys of a dict (those of
\* scores) as strings
encode_data(data) ==
    json_dumps(IF "scores" \in DOMAIN data
               THEN [data EXCEPT !.scores = [k \in {"1", "2"} |-> data.scores[IntOf(k)]]]
               ELSE data)

\* decode_data: None (the empty sequence) for empty input and for bytes
\* json.loads rejects, else the document as a one-element sequence
decode_data(byte_data) == IF byte_data = <<>> THEN <<>> ELSE json_loads(byte_data)

\* the truth value of what decode_data returned: None, an empty dict and
\* the number 0 are false
Truthy(decoded) ==
    /\ decoded # <<>>
    /\ IF IsDict(decoded[1]) THEN DOMAIN decoded[1] # {} ELSE decoded[1].number # 0

\* a dictionary built from a list by id: one entry per id, in the order the
\* ids first appear, holding the last element that carries the id
DictById(s) ==
    LET firsts == {i \in 1..Len(s) : \A j \in 1..(i - 1) : s[j].id # s[i].id}
        LastOf(id) == s[CHOOSE i \in 1..Len(s) :
                            /\ s[i].id = id
                            /\ \A j \in (i + 1)..Len(s) : s[j].id # id]
        RECURSIVE Build(_)
        Build(i) == IF i > Len(s) THEN <<>>
                    ELSE IF i \in firsts THEN <<LastOf(s[i].id)>> \o Build(i + 1)
                    ELSE Build(i + 1)
    IN  Build(1)

Ids(s) == {s[i].id : i \in 1..Len(s)}
Entry(s, id) == s[CHOOSE i \in 1..Len(s) : s[i].id = id]

\* the maximum of a set of ids and a floor
MaxId(S, floor) == IF S = {} THEN floor
                   ELSE Max2(floor, CHOOSE m \in S : \A k \in S : k <= m)

\* the counter left where the constructions of step 2 put it
SyncLocalOnly(local_next, max_server_id, server_next_id) == local_next

\* the counter set one past what step 3 computes
SyncNextIdPlusOne(local_next, max_server_id, server_next_id) ==
    Max2(Max2(local_next, max_server_id + 1), server_next_id) + 1

\* step 3 of the projectile merge: the local counter never falls, and is at
\* least one past the highest id seen and at least the host's counter
SyncNextId(local_next, max_server_id, server_next_id) ==
    Max2(Max2(local_next, max_server_id + 1), server_next_id)

\* A document read off the wire is a record of the entries whose values have
\* the JSON type the reader converts; an entry whose value has another type
\* (a string where a number or a dictionary is expected) carries no value
\* and is listed under the key "malformed" instead.
Malformed(d) == Get(d, "malformed", {})

\* the attributes the player update assigns, in the order of assignment
PlayerFields ==
    <<"x", "y", "hp", "last_shot_time", "last_fireball_time", "last_dx", "last_dy">>

\* the assignments of one player inside the try block: each attribute takes
\* the received value, or the local one where the key is missing; the
\* conversion of a malformed value raises, which leaves the attributes
\* after it unassigned
PlayerSetState(player_local, p_state) ==
    Only({[f \in DOMAIN player_local |->
              IF /\ f \in DOMAIN p_state
                 /\ \E i \in 1..(stop - 1) : PlayerFields[i] = f
              THEN p_state[f]
              ELSE player_local[f]] :
            stop \in {MinOf({i \in 1..Len(PlayerFields) :
                                 PlayerFields[i] \in Malformed(p_state)}
                            \cup {Len(PlayerFields) + 1})}})

\* the player update of set_network_state: every local player whose id is
\* among the received (string) keys and whose received state is a dict
SetPlayers(local, received) ==
    [p \in DOMAIN local |->
        IF StrOf(p) \in DOMAIN received /\ IsDict(received[StrOf(p)])
        THEN PlayerSetState(local[p], received[StrOf(p)])
        ELSE local[p]]

\* the fence update of set_network_state: local fences are matched by id
SetFences(local, received) ==
    Only({[i \in 1..Len(local) |->
              IF local[i].id \in Ids(server_fence_map)
              THEN FenceSetState(local[i], Entry(server_fence_map, local[i].id))
              ELSE local[i]] :
            server_fence_map \in {DictById(received)}})

\* step 1 of the projectile merge: the local active projectiles the host
\* still reports, updated in place, in local order
KeepKnown(current_proj_map, server_proj_map) ==
    Only({ActiveOnly([i \in 1..Len(known) |->
                        ProjSetState(known[i], Entry(server_proj_map, known[i].id))]) :
            known \in {SelectSeq(current_proj_map,
                                 LAMBDA p : p.id \in Ids(server_proj_map))}})

\* step 2 of the projectile merge: a Projectile is constructed for every
\* reported id not known locally (drawing a local id, which is then
\* overwritten by the reported one) and filled in by set_state
AddNew(fresh, local_next) ==
    [k \in 1..Len(fresh) |->
        ProjSetState([NewProjectile(local_next + k - 1, 0, 0, 0, 0, 0, fresh[k].type)
                      EXCEPT !.id = fresh[k].id],
                     fresh[k])]

\* the local projectiles left in place where they are cleared
KeepProjectiles(ps) == ps

\* if self.projectiles: self.projectiles = []
ClearProjectiles(ps) == <<>>

\* the projectile merge of set_network_state, given the two dictionaries by
\* id: the list after steps 1 and 2 and the counter after step 3, where a
\* snapshot without next_proj_id leaves out the host's counter
MergeProjectiles(c, network_state, server_proj_map, current_proj_map) ==
    Only({[projectiles |-> KeepKnown(current_proj_map, server_proj_map)
                           \o ActiveOnly(AddNew(fresh, c.next_id)),
           next_id |-> SyncNextId(c.next_id + Len(fresh),
                                  MaxId(Ids(server_proj_map), -1),
                                  Get(network_state, "next_proj_id",
                                      MaxId(Ids(server_proj_map), -1) + 1))] :
            fresh \in {SelectSeq(server_proj_map,
                                 LAMBDA s : s.id \notin Ids(current_proj_map))}})

\* set_network_state past its isinstance guard: every part is read with
\* .get, so a missing key keeps the local value (scores, game_over, winner)
\* or reads as empty (players, fences, projectiles)
ApplyNetworkState(c, network_state) ==
    LET base == [c EXCEPT !.scores = IF "scores" \in DOMAIN network_state
                                     THEN [p \in {1, 2} |->
                                              network_state.scores[StrOf(p)]]
                                     ELSE @,
                          !.game_over = Get(network_state, "game_over", @),
                          !.winner = Get(network_state, "winner", @),
                          !.players = SetPlayers(@, Get(network_state, "players",
                                                        EmptyDict)),
                          !.fences = SetFences(@, Get(network_state, "fences", <<>>))]
    IN  IF base.game_over
        THEN [base EXCEPT !.projectiles = ClearProjectiles(@)]
        ELSE Only({[base EXCEPT !.projectiles = merged.projectiles,
                                !.next_id = merged.next_id] :
                     merged \in {MergeProjectiles(
                                    c, network_state,
                                    DictById(Get(network_state, "projectiles", <<>>)),
                                    DictById(ActiveOnly(c.projectiles)))}})

\* set_network_state without its isinstance guard
ApplyUnguarded(c, network_state) == ApplyNetworkState(c, network_state)

\* GameState.set_network_state on a client state c: a network_state that
\* is not a dict is discarded
set_network_state(c, network_state) ==
    IF ~IsDict(network_state) THEN c ELSE ApplyNetworkState(c, network_state)

-----------------------------------------------------------------------------
(* The map.  The maze generator is an external collaborator whose output   *)
(* _load_map consumes as data: a list of fence rectangles and two start    *)
(* positions.  The layout below is one such input: a wall between the two  *)
(* players, a stub that overlaps the wall (as a radial fence overlaps a    *)
(* ring segment), and a ledge below player 1.  Both start positions are    *)
(* free of every fence, so _find_free_spawn_position returns them as given.*)
(* Every process draws its own maze, so the client starts from another.    *)

Layout ==
    <<NewFence(0, 150, 40, 10, 120),
      NewFence(1, 155, 40, 10, 40),
      NewFence(2, 90, 116, 26, 10)>>

start_positions == <<[x |-> 128, y |-> 100], [x |-> 175, y |-> 100]>>

ClientLayout ==
    <<NewFence(0, 300, 200, 10, 60),
      NewFence(1, 310, 200, 60, 10),
      NewFence(2, 90, 116, 26, 10),
      NewFence(3, 400, 300, 10, 60)>>

client_start_positions == <<[x |-> 200, y |-> 300], [x |-> 600, y |-> 300]>>

\* the players dictionary reset() builds from the start positions
PlayersAt(sp) ==
    [p \in {1, 2} |->
        [x |-> Px(sp[p].x), y |-> Px(sp[p].y),
         hp |-> MAX_HP, last_shot_time |-> 0, last_fireball_time |-> 0,
         last_dx |-> IF p = 1 THEN 1 ELSE -1, last_dy |-> 0]]

NewPlayers == PlayersAt(start_positions)

\* GameState.__init__ in the client process
NewClient ==
    [players |-> PlayersAt(client_start_positions), fences |-> ClientLayout,
     projectiles |-> <<>>, next_id |-> 0, game_over |-> FALSE, winner |-> None,
     scores |-> [p \in {1, 2} |-> 0]]

-----------------------------------------------------------------------------
(* Inputs *)

Inp(keys, interact, shoot, fireball) ==
    [keys |-> keys, action_interact |-> interact, action_shoot |-> shoot,
     action_fireball |-> fireball]

\* the neutral intent: no keys, no actions
Idle == Inp({}, FALSE, FALSE, FALSE)
Shoot == Inp({}, FALSE, TRUE, FALSE)
ShootFire == Inp({}, FALSE, TRUE, TRUE)
StepRight == Inp({"d"}, FALSE, FALSE, FALSE)
Fire == Inp({}, FALSE, FALSE, TRUE)
FireRight == Inp({"d"}, FALSE, FALSE, TRUE)
Use == Inp({}, TRUE, FALSE, FALSE)

\* bounds of the runs: update() calls per run, and the clock steps between
\* two calls (below the shot cooldown, and past the fireball cooldown)
MaxTicks == 6
WallTicks == 4
DuelTicks == 11
ClashTicks == 5
GateTicks == 6
EdgeTicks == 23
DrainTicks == 5
TurnTicks == 3
NetTicks == 6
SyncTicks == 5
\* the host's inbox: messages the client sends, frames of the game loop
MaxSends == 3
InboxTicks == 2
DamagedTicks == 3
RoundTicks == 8
RoundSends == 3
DtShort == 150
DtLong == 5001
\* how often in a row the client applies the snapshot it holds
MaxApplies == 2
\* the clock of the fence unit: its steps and its end
FenceDtShort == 1500
FenceDtLong == 2500
MaxFenceClock == 7500

-----------------------------------------------------------------------------
(* Observations *)

NoEvent == [op |-> "init", was_over |-> FALSE, hits |-> <<>>, fev |-> <<>>,
            moves |-> <<>>, order |-> <<>>, listed |-> <<>>, toggles |-> <<>>]

NewRound(sc) == [normal12 |-> 0, other |-> FALSE, start_scores |-> sc]

\* a hit that is a normal projectile of player 1 landing on player 2
IsNormal12(h) == h.type = "normal" /\ h.owner = 1 /\ h.target = 2

\* Projectile.__init__ as often as update() called it at time t: the
\* projectiles of the list that took an id from the counter, which stood at
\* lo before, with their id, owner and type
Constructed(listed, lo, t) ==
    LET made == SelectSeq(listed, LAMBDA p : p.id >= lo)
    IN  [k \in 1..Len(made) |->
            [id |-> made[k].id, owner_id |-> made[k].owner_id,
             type |-> made[k].type, t |-> t]]

CountRound(r, hits) ==
    [r EXCEPT !.normal12 = @ + Len(SelectSeq(hits, IsNormal12)),
              !.other = @ \/ \E k \in 1..Len(hits) : ~IsNormal12(hits[k])]

-----------------------------------------------------------------------------
(* The host *)

HostInit ==
    /\ players = NewPlayers
    /\ fences = Layout
    /\ projectiles = <<>>
    /\ next_id = 0
    /\ game_over = FALSE
    /\ winner = None
    /\ scores = [p \in {1, 2} |-> 0]
    /\ now = 0
    /\ ticks = 0
    /\ ev = NoEvent
    /\ round = NewRound([p \in {1, 2} |-> 0])
    /\ issued = <<>>

\* GameState.update(p1_input, p2_input, current_time_ticks), the clock
\* having advanced by dt since the previous call
Update(in1, in2, dt) ==
    \E r \in {UpdateResult(HostState, in1, in2, now + dt)} :
        /\ players' = r.gs.players
        /\ fences' = r.gs.fences
        /\ projectiles' = r.gs.projectiles
        /\ next_id' = r.gs.next_id
        /\ game_over' = r.gs.game_over
        /\ winner' = r.gs.winner
        /\ scores' = r.gs.scores
        /\ now' = now + dt
        /\ ticks' = ticks + 1
        /\ ev' = [op |-> "update", was_over |-> game_over, hits |-> r.hits,
                  fev |-> r.fev, moves |-> r.moves, order |-> r.order,
                  listed |-> r.listed, toggles |-> r.toggles]
        /\ round' = CountRound(round, r.hits)
        /\ issued' = issued \o Constructed(r.listed, next_id, now + dt)

\* GameState.update at an unchanged clock with nobody asking for anything:
\* the frames that go on once the players have let go of the keys
IdleUpdate ==
    \E r \in {UpdateResult(HostState, Idle, Idle, now)} :
        /\ players' = r.gs.players
        /\ fences' = r.gs.fences
        /\ projectiles' = r.gs.projectiles
        /\ next_id' = r.gs.next_id
        /\ game_over' = r.gs.game_over
        /\ winner' = r.gs.winner
        /\ scores' = r.gs.scores
        /\ ev' = [op |-> "update", was_over |-> game_over, hits |-> r.hits,
                  fev |-> r.fev, moves |-> r.moves, order |-> r.order,
                  listed |-> r.listed, toggles |-> r.toggles]
        /\ round' = CountRound(round, r.hits)
        /\ UNCHANGED <<now, ticks, issued>>

\* GameState.reset()
Reset ==
    /\ players' = NewPlayers
    /\ fences' = [i \in 1..Len(fences) |-> FenceReset(fences[i])]
    /\ projectiles' = <<>>
    /\ next_id' = 0
    /\ game_over' = FALSE
    /\ winner' = None
    /\ ev' = [NoEvent EXCEPT !.op = "reset"]
    /\ round' = NewRound(scores)
    /\ UNCHANGED <<scores, now, ticks, issued>>

-----------------------------------------------------------------------------
(* The Fence on its own: toggle calls by either player at a running clock *)

FenceInit ==
    /\ ufence = NewFence(0, 150, 40, 10, 120)
    /\ fclock = 0
    /\ fcall = [player_id |-> None, t |-> 0, returned |-> FALSE,
                before |-> NewFence(0, 150, 40, 10, 120)]

\* the clock moves on
FenceClock ==
    /\ \E dt \in {FenceDtShort, FenceDtLong} :
          /\ fclock + dt <= MaxFenceClock
          /\ fclock' = fclock + dt
    /\ UNCHANGED <<ufence, fcall>>

\* Fence.toggle(player_id, current_time): it returns whether can_interact
\* allowed the call
FenceToggle ==
    /\ \E player_id \in {1, 2} :
          /\ ufence' = toggle(ufence, player_id, fclock)
          /\ fcall' = [player_id |-> player_id, t |-> fclock,
                       returned |-> can_interact(ufence, player_id, fclock),
                       before |-> ufence]
    /\ UNCHANGED fclock

-----------------------------------------------------------------------------
(* The client: it keeps the newest decoded snapshot and applies it to its  *)
(* own GameState on every frame                                            *)

ClientInit ==
    /\ cl = NewClient
    /\ last_received_state = <<>>
    /\ applied = [count |-> 0, snap |-> <<>>, before |-> NewClient, first |-> NewClient]

\* a message arrives whole and is decoded; the client keeps what decode_data
\* returned when that is truthy
ClientReceive(payload) ==
    /\ \E decoded_state \in {decode_data(payload)} :
          last_received_state' = IF Truthy(decoded_state) THEN decoded_state
                                 ELSE last_received_state
    /\ UNCHANGED <<cl, applied>>

\* one frame of the client loop: set_network_state(last_received_state)
ClientApply ==
    /\ last_received_state # <<>>
    /\ applied.snap = last_received_state => applied.count < MaxApplies
    /\ \E c \in {set_network_state(cl, last_received_state[1])} :
          /\ cl' = c
          /\ applied' = IF applied.snap = last_received_state
                        THEN [applied EXCEPT !.count = @ + 1]
                        ELSE [count |-> 1, snap |-> last_received_state,
                              before |-> cl, first |-> c]
    /\ UNCHANGED last_received_state

-----------------------------------------------------------------------------
(* The host's receiver thread (handle_client_connection) and the mailbox   *)
(* it shares with the server game loop                                     *)

DisconnectSentinel == [disconnect |-> TRUE]

\* the index of the last newline in data, 0 when there is none
LastNewline(data) ==
    Only({IF at = {} THEN 0 ELSE MaxId(at, 0) :
            at \in {{i \in 1..Len(data) : data[i] = NEWLINE}}})

\* the index of the first newline in data, 0 when there is none
FirstNewline(data) ==
    Only({IF at = {} THEN 0 ELSE MinOf(at) :
            at \in {{i \in 1..Len(data) : data[i] = NEWLINE}}})

\* the inner while loop storing every input, whatever the mailbox holds
HandleMessageUnchecked(h) ==
    LET k == FirstNewline(h.partial_data)
        decoded == decode_data(SubSeq(h.partial_data, 1, k - 1))
        split == [h EXCEPT !.partial_data = SubSeq(@, k + 1, Len(@)),
                           !.got = Append(@, decoded)]
    IN  IF Truthy(decoded) /\ IsDict(decoded[1]) /\ "input" \in DOMAIN decoded[1]
        THEN [split EXCEPT !.client_input_buffer = decoded[1].input]
        ELSE split

\* the inner while loop storing an input only into an empty mailbox
HandleMessageKeepFirst(h) ==
    LET k == FirstNewline(h.partial_data)
        decoded == decode_data(SubSeq(h.partial_data, 1, k - 1))
        split == [h EXCEPT !.partial_data = SubSeq(@, k + 1, Len(@)),
                           !.got = Append(@, decoded)]
    IN  IF /\ Truthy(decoded) /\ IsDict(decoded[1]) /\ "input" \in DOMAIN decoded[1]
           /\ h.client_input_buffer = EmptyDict
        THEN [split EXCEPT !.client_input_buffer = decoded[1].input]
        ELSE split

\* the body of the inner while loop for the first message in the buffer;
\* h carries partial_data, client_input_buffer, got (what decode_data
\* returned for every non-empty message) and raised (an exception left
\* the loop)
HandleMessage(h) ==
    LET k == FirstNewline(h.partial_data)
        message == SubSeq(h.partial_data, 1, k - 1)
        decoded == decode_data(message)
        split == [h EXCEPT !.partial_data = SubSeq(@, k + 1, Len(@)),
                           !.got = IF message = <<>> THEN @ ELSE Append(@, decoded)]
    IN  IF message = <<>> THEN split
        ELSE IF ~Truthy(decoded) THEN split
        \* "input" in decoded raises TypeError on a number
        ELSE IF ~IsDict(decoded[1]) THEN [split EXCEPT !.raised = TRUE]
        ELSE IF "input" \notin DOMAIN decoded[1] THEN split
        \* client_input_buffer.get raises AttributeError on a number
        ELSE IF ~IsDict(h.client_input_buffer) THEN [split EXCEPT !.raised = TRUE]
        ELSE IF Get(h.client_input_buffer, "disconnect", FALSE) THEN split
        ELSE [split EXCEPT !.client_input_buffer = decoded[1].input]

\* the receiver thread is between recv calls ("receiving"), inside the inner
\* while loop with a complete message in its buffer ("processing"), past
\* its outer loop ("leaving") or ended ("stopped"); the game loop waits for
\* a client ("waiting"), runs its frames ("running"), or has left its loop
InboxInit ==
    /\ wire = <<>>
    /\ partial_data = <<>>
    /\ client_input_buffer = EmptyDict
    /\ handler = "unstarted"
    /\ host_loop = "waiting"
    /\ app_running = TRUE
    /\ rx = [got |-> <<>>, before |-> EmptyDict, raised |-> FALSE, all |-> <<>>,
             tail |-> <<>>, remote_p2_input_copy |-> Idle,
             mailbox_read |-> EmptyDict]
    /\ sent = <<>>

\* server_tcp_socket.accept() returns: the mailbox is emptied under the
\* lock, the receiver thread is started and the game loop begins
Accept ==
    /\ host_loop = "waiting"
    /\ app_running
    /\ client_input_buffer' = EmptyDict
    /\ handler' = "receiving"
    /\ host_loop' = "running"
    /\ UNCHANGED <<wire, partial_data, app_running, rx, sent>>

\* the client's sendall(payload + b'\n')
ClientSend(payload) ==
    /\ wire' = wire \o payload \o <<NEWLINE>>
    /\ sent' = Append(sent, payload)
    /\ UNCHANGED <<partial_data, client_input_buffer, handler, host_loop, app_running, rx>>

\* the receiver thread's pending position once the inner loop is done with
\* a message
AfterMessage(data) == IF FirstNewline(data) = 0 THEN "receiving" ELSE "processing"

\* conn.recv returns the first n bytes on the wire, which are appended to
\* the buffer
HandlerRecv(n) ==
    /\ handler = "receiving"
    /\ app_running
    /\ n \in 1..Len(wire)
    /\ wire' = SubSeq(wire, n + 1, Len(wire))
    /\ partial_data' = partial_data \o SubSeq(wire, 1, n)
    /\ handler' = AfterMessage(partial_data')
    /\ rx' = [rx EXCEPT !.got = <<>>, !.raised = FALSE, !.tail = partial_data]
    /\ UNCHANGED <<client_input_buffer, host_loop, app_running, sent>>

\* one pass of the inner while loop: the first message in the buffer is
\* split off, decoded and, under the lock, stored; an exception ends both
\* loops
HandlerStep ==
    /\ handler = "processing"
    /\ \E h \in {HandleMessage([partial_data |-> partial_data,
                                client_input_buffer |-> client_input_buffer,
                                got |-> rx.got, raised |-> FALSE])} :
          /\ partial_data' = h.partial_data
          /\ client_input_buffer' = h.client_input_buffer
          /\ handler' = IF h.raised THEN "leaving" ELSE AfterMessage(h.partial_data)
          /\ rx' = [rx EXCEPT !.got = h.got, !.before = client_input_buffer,
                              !.raised = h.raised,
                              !.all = @ \o SubSeq(h.got, Len(rx.got) + 1, Len(h.got))]
    /\ UNCHANGED <<wire, host_loop, app_running, sent>>

\* the outer loop ends without a message being handled: recv returned no
\* bytes or raised socket.error, or app_running was found false
HandlerBreak ==
    /\ handler = "receiving"
    /\ handler' = "leaving"
    /\ UNCHANGED <<wire, partial_data, client_input_buffer, host_loop, app_running,
                   rx, sent>>

\* past the loop: if app_running: client_input_buffer = {"disconnect": True}
HandlerLeave ==
    /\ handler = "leaving"
    /\ handler' = "stopped"
    /\ client_input_buffer' = IF app_running THEN DisconnectSentinel
                              ELSE client_input_buffer
    /\ UNCHANGED <<wire, partial_data, host_loop, app_running, rx, sent>>

\* the input dictionary update() reads, every key through .get
InputOf(d) ==
    Inp(Get(d, "keys", {}), Get(d, "action_interact", FALSE),
        Get(d, "action_shoot", FALSE), Get(d, "action_fireball", FALSE))

\* whether the frame takes the mailbox as player 2's input
TakesInput(buffer) ==
    /\ Truthy(<<buffer>>)
    /\ IsDict(buffer)
    /\ ~Get(buffer, "disconnect", FALSE)
    /\ ~game_over

\* one frame of the server game loop up to its update: the mailbox is read
\* under the lock, then reset() or update() is called with the copy taken,
\* or neither when the round is over and no reset is asked for
HostFrame(in1, dt) ==
    /\ host_loop = "running"
    /\ app_running
    /\ rx' = [rx EXCEPT !.mailbox_read = client_input_buffer,
                        !.remote_p2_input_copy =
                            IF TakesInput(client_input_buffer)
                            THEN InputOf(client_input_buffer) ELSE Idle]
    /\ IF ~Truthy(<<client_input_buffer>>)
       THEN /\ IF game_over THEN UNCHANGED hostVars ELSE Update(in1, Idle, dt)
            /\ UNCHANGED <<client_input_buffer, host_loop, app_running>>
       ELSE IF ~IsDict(client_input_buffer)
       \* client_input_buffer.get raises AttributeError: nothing catches it
       THEN /\ host_loop' = "crashed"
            /\ UNCHANGED <<hostVars, client_input_buffer, app_running>>
       ELSE IF Get(client_input_buffer, "disconnect", FALSE)
       THEN /\ client_input_buffer' = EmptyDict
            /\ app_running' = FALSE
            /\ host_loop' = "left"
            /\ UNCHANGED hostVars
       ELSE IF game_over /\ Get(client_input_buffer, "action_reset", FALSE)
       THEN /\ Reset
            /\ client_input_buffer' = EmptyDict
            /\ UNCHANGED <<host_loop, app_running>>
       ELSE IF game_over
       THEN UNCHANGED <<hostVars, client_input_buffer, host_loop, app_running>>
       ELSE /\ Update(in1, InputOf(client_input_buffer), dt)
            /\ client_input_buffer' = EmptyDict
            /\ UNCHANGED <<host_loop, app_running>>
    /\ UNCHANGED <<wire, partial_data, handler, sent>>

\* a frame of couch play whose events set reset_requested
CouchFrameUnguarded(in1, in2, K_RETURN, dt) ==
    IF K_RETURN THEN Reset ELSE Update(in1, in2, dt)

\* one frame of the couch-play loop: reset_requested is set by the return
\* key once the round is over; reset() is called if it is set, update()
\* otherwise while the round runs
CouchFrame(in1, in2, K_RETURN, dt) ==
    IF game_over /\ K_RETURN THEN Reset
    ELSE ~game_over /\ Update(in1, in2, dt)

\* the end of a frame whose sendall raises socket.error: the sentinel is
\* written under the lock and the game loop is left
HostSendFails ==
    /\ host_loop = "running"
    /\ app_running
    /\ client_input_buffer' = DisconnectSentinel
    /\ app_running' = FALSE
    /\ host_loop' = "left"
    /\ UNCHANGED <<wire, partial_data, handler, rx, sent>>

-----------------------------------------------------------------------------
(* Specifications.  Every one starts from the same constructed state and   *)
(* drives the part of the program its properties are about; the variables  *)
(* of the other parts stay as constructed.                                 *)

Init == HostInit /\ FenceInit /\ ClientInit /\ InboxInit

\* one frame of a driver loop: update() with intents drawn from A1 and A2
TickOf(A1, A2, D, bound) ==
    /\ ticks < bound
    /\ \E in1 \in A1, in2 \in A2, dt \in D : Update(in1, in2, dt)
    /\ UNCHANGED <<fenceUnitVars, clientVars, inboxVars>>

\* the driver's reset branch, taken only once the round is over
ResetRound == game_over /\ Reset /\ UNCHANGED <<fenceUnitVars, clientVars, inboxVars>>

\* combat: both players stand still and fire
Tick == TickOf({Idle, ShootFire}, {Shoot, ShootFire}, {DtShort, DtLong}, MaxTicks)

Next == Tick \/ ResetRound

Spec == Init /\ [][Next]_vars

\* player 1 walks along the wall, opens it and shoots at it; player 2 walks
\* into it from the other side
WallTick ==
    TickOf({StepRight,
            Inp({"d", "s"}, FALSE, FALSE, FALSE),
            Inp({"d", "w"}, FALSE, TRUE, FALSE),
            Inp({}, TRUE, FALSE, FALSE),
            Shoot},
           {Idle, Inp({"a", "w"}, FALSE, FALSE, FALSE)}, {DtLong}, WallTicks)

NextWall == WallTick

SpecWall == Init /\ [][NextWall]_vars

\* a duel of normal shots: player 1 steps to the wall and shoots through it
DuelTick == TickOf({Idle, StepRight, Shoot}, {Idle}, {DtLong}, DuelTicks)

NextDuel == DuelTick \/ ResetRound

SpecDuel == Init /\ [][NextDuel]_vars

\* a clash: player 1 steps next to the wall, so that its shots pass it as
\* player 2's do; both throw fireballs and shoot at each other
ClashTick == TickOf({Fire, FireRight, Shoot}, {Fire, Shoot}, {DtLong}, ClashTicks)

NextClash == ClashTick \/ ResetRound

SpecClash == Init /\ [][NextClash]_vars

\* the gate: player 1 steps to the wall, both players work it, at clock
\* steps inside and past the fence cooldown, and player 1 walks through it
\* up to player 2
GateTick == TickOf({Idle, StepRight, Use}, {Idle, Use}, {DtShort, DtLong}, GateTicks)

NextGate == GateTick

SpecGate == Init /\ [][NextGate]_vars

\* the drain: player 1 throws fireballs, player 2 shoots or waits; frames
\* without input follow for as long as the program runs
DrainTick == TickOf({Fire}, {Idle, Shoot}, {DtLong}, DrainTicks)

DrainIdle == IdleUpdate /\ UNCHANGED <<fenceUnitVars, clientVars, inboxVars>>

NextDrain == DrainTick \/ DrainIdle

SpecDrain == Init /\ [][NextDrain]_vars /\ WF_vars(DrainIdle)

\* the turn: keys that cancel each other, alone and next to keys that do
\* not, with shots in the same frame
TurnTick ==
    TickOf({Shoot,
            Inp({"a", "d"}, FALSE, TRUE, FALSE),
            Inp({"w", "s"}, FALSE, FALSE, TRUE),
            Inp({"a", "d", "w"}, FALSE, TRUE, FALSE),
            Inp({"a", "d", "w", "s"}, FALSE, TRUE, TRUE)},
           {Idle, Inp({"w", "s", "d"}, FALSE, TRUE, FALSE)}, {DtLong}, TurnTicks)

NextTurn == TurnTick

SpecTurn == Init /\ [][NextTurn]_vars

\* the edge: player 1 walks up and to the left until the play field ends
EdgeTick ==
    TickOf({Idle, Inp({"w"}, FALSE, FALSE, FALSE), Inp({"a", "w"}, FALSE, FALSE, FALSE)},
           {Idle}, {DtLong}, EdgeTicks)

NextEdge == EdgeTick

SpecEdge == Init /\ [][NextEdge]_vars

\* the Fence alone
FenceTick == FenceClock /\ UNCHANGED <<hostVars, clientVars, inboxVars>>
FenceCall == FenceToggle /\ UNCHANGED <<hostVars, clientVars, inboxVars>>

NextFence == FenceTick \/ FenceCall

SpecFence == Init /\ [][NextFence]_vars

\* host and client: the host plays, the client receives and applies
NetTick == TickOf({Idle}, {Shoot, ShootFire}, {DtLong}, NetTicks)
Receive ==
    /\ ClientReceive(encode_data(get_network_state(HostState)))
    /\ UNCHANGED <<hostVars, fenceUnitVars, inboxVars>>
Apply == ClientApply /\ UNCHANGED <<hostVars, fenceUnitVars, inboxVars>>

NextNet == NetTick \/ ResetRound \/ Receive \/ Apply

SpecNet == Init /\ [][NextNet]_vars

\* host and client with fence play: player 2 toggles the wall or fires
SyncTick == TickOf({Idle}, {Use, ShootFire}, {DtLong}, SyncTicks)

NextSync == SyncTick \/ ResetRound \/ Receive \/ Apply

SpecSync == Init /\ [][NextSync]_vars

\* the documents a client sends: its input under the key "input"
InputDoc(inp) == [input |-> inp]

\* payloads that are not what the host expects: bytes json.loads rejects, a
\* dict without the key "input", a dict whose "input" is a number
JunkPayload == <<Byte("{"), Byte("?")>>
NoInputPayload == encode_data([hello |-> TRUE])
NumberInputPayload == encode_data(InputDoc(Number(5)))

\* the host's inbox: the client sends well-formed and malformed messages,
\* the receiver thread reads them in whatever pieces arrive and handles
\* them one by one, the game loop accepts the client, runs its frames and
\* may fail to send
InboxSend ==
    /\ Len(sent) < MaxSends
    /\ \E payload \in {encode_data(InputDoc(Shoot)), encode_data(InputDoc(ShootFire)),
                       JunkPayload, NoInputPayload, NumberInputPayload} :
          ClientSend(payload)
    /\ UNCHANGED <<hostVars, fenceUnitVars, clientVars>>

InboxRecv ==
    /\ \/ \E n \in 1..Len(wire) : HandlerRecv(n)
       \/ HandlerStep
       \/ HandlerBreak
       \/ HandlerLeave
    /\ UNCHANGED <<hostVars, fenceUnitVars, clientVars>>

InboxFrame ==
    \/ /\ ticks < InboxTicks
       /\ HostFrame(Idle, DtLong)
       /\ UNCHANGED <<fenceUnitVars, clientVars>>
    \/ /\ Accept \/ HostSendFails
       /\ UNCHANGED <<hostVars, fenceUnitVars, clientVars>>

NextInbox == InboxSend \/ InboxRecv \/ InboxFrame

SpecInbox == Init /\ [][NextInbox]_vars

\* the same with every thread scheduled: the receiver thread and the game
\* loop are running threads, and the client's sends are bounded
SpecInboxLive == SpecInbox /\ WF_vars(NextInbox)

\* the rounds under the two drivers.  Couch play: player 1 fires, the
\* return key is pressed in any frame.  Host: player 1 fires, the client
\* sends fire and reset requests one message at a time, and may go away
RoundCouch ==
    /\ host_loop = "waiting"
    /\ ticks < RoundTicks
    /\ \E K_RETURN \in BOOLEAN : CouchFrame(ShootFire, Idle, K_RETURN, DtLong)
    /\ UNCHANGED <<fenceUnitVars, clientVars, inboxVars>>

RoundSend ==
    /\ wire = <<>>
    /\ handler = "receiving"
    /\ Len(sent) < RoundSends
    /\ \E payload \in {encode_data(InputDoc(Shoot)),
                       encode_data(InputDoc([action_reset |-> TRUE]))} :
          ClientSend(payload)
    /\ UNCHANGED <<hostVars, fenceUnitVars, clientVars>>

RoundFrame ==
    \/ /\ ticks < RoundTicks
       /\ HostFrame(ShootFire, DtLong)
       /\ UNCHANGED <<fenceUnitVars, clientVars>>
    \/ /\ ticks = 0
       /\ Accept
       /\ UNCHANGED <<hostVars, fenceUnitVars, clientVars>>

NextRound == RoundCouch \/ RoundSend \/ InboxRecv \/ RoundFrame

SpecRound == Init /\ [][NextRound]_vars

\* the receiver thread going on by itself: it takes a chunk that has
\* arrived, handles one message, or finishes once it has left its loop
InboxDeliver ==
    /\ \/ \E n \in 1..Len(wire) : HandlerRecv(n)
       \/ HandlerStep
       \/ HandlerLeave
    /\ UNCHANGED <<hostVars, fenceUnitVars, clientVars>>

\* a frame of the game loop while the round is over
OverFrame == game_over /\ RoundFrame

\* the same, with both threads scheduled: the game loop keeps running its
\* frames once the round is over, and the receiver thread keeps taking
\* what has arrived; whether the connection breaks is left open
SpecRoundLive == SpecRound /\ WF_vars(OverFrame) /\ WF_vars(InboxDeliver)

\* a document without its entry k
Omit(d, k) == [f \in DOMAIN d \ {k} |-> d[f]]

\* a document whose entry k carries a value of the wrong type
Garble(d, k) ==
    [f \in (DOMAIN d \ {k}) \cup {"malformed"} |->
        IF f = "malformed" THEN Malformed(d) \cup {k} ELSE d[f]]

\* the messages a client may be handed in place of the snapshot ns: a
\* number, the snapshot short of a top-level entry or of an attribute of
\* player 1, and the snapshot with a malformed scores entry or a malformed
\* attribute of player 1
Damaged(ns) ==
    {Number(7)}
    \cup {Omit(ns, k) : k \in {"scores", "game_over", "winner"}}
    \cup {Garble(ns, "scores")}
    \cup {[ns EXCEPT !.players["1"] = Omit(@, f)] : f \in {"x", "hp"}}
    \cup {[ns EXCEPT !.players["1"] = Garble(@, f)] : f \in {"x", "hp", "last_dy"}}

\* host and client over a link that damages snapshots: the players trade
\* fire, the client receives snapshots whole or damaged and applies them
DamagedTick == TickOf({ShootFire}, {ShootFire}, {DtLong}, DamagedTicks)
ReceiveDamaged ==
    /\ \E doc \in Damaged(get_network_state(HostState)) :
          ClientReceive(encode_data(doc))
    /\ UNCHANGED <<hostVars, fenceUnitVars, inboxVars>>

NextDamaged == DamagedTick \/ Receive \/ ReceiveDamaged \/ Apply

SpecDamaged == Init /\ [][NextDamaged]_vars

-----------------------------------------------------------------------------
(* Properties *)

\* the hits of the last operation that brought their target to hp 0
Kills == {k \in 1..Len(ev.hits) : ev.hits[k].kill}

\* the step is an update() call
IsUpdate == ticks' = ticks + 1

\* C1: across every update() call no player's hp rises, and in every
\* reachable state each player's hp lies in 0..MAX_HP.
C1_HpNeverRises ==
    /\ [](\A p \in {1, 2} : players[p].hp >= 0 /\ players[p].hp <= MAX_HP)
    /\ [][IsUpdate => \A p \in {1, 2} : players'[p].hp <= players[p].hp]_vars

\* C1 witness: an update() has hit player 1, who lives on with less hp
C1_Witness ==
    /\ ev.op = "update"
    /\ \E k \in 1..Len(ev.hits) : ev.hits[k].target = 1 /\ ev.hits[k].damage > 0
    /\ players[1].hp > 0
    /\ players[1].hp < MAX_HP

\* C2: a toggle called strictly inside the cooldown window of the last
\* successful toggle returns false and leaves the fence as it was when the
\* caller is the other player, and succeeds when the caller is the same
\* player.
C2_CooldownExclusive ==
    LET F == fcall.before
        T == F.last_interaction_time
        A == F.last_interactor
    IN  (/\ fcall.player_id # None
         /\ A # None
         /\ T < fcall.t
         /\ fcall.t < T + COOLDOWN_DURATION_MS)
        => /\ fcall.player_id # A =>
                /\ ~fcall.returned
                /\ ufence.is_open = F.is_open
                /\ ufence.last_interactor = F.last_interactor
                /\ ufence.last_interaction_time = F.last_interaction_time
           /\ fcall.player_id = A =>
                /\ fcall.returned
                /\ ufence.is_open = ~F.is_open
                /\ ufence.last_interactor = A
                /\ ufence.last_interaction_time = fcall.t

\* C2 witness: player 2 called toggle inside the window player 1 opened, and
\* was refused
C2_Witness ==
    /\ fcall.player_id = 2
    /\ fcall.before.last_interactor = 1
    /\ fcall.before.last_interaction_time < fcall.t
    /\ fcall.t < fcall.before.last_interaction_time + COOLDOWN_DURATION_MS
    /\ ~fcall.returned

\* C3: after an update() call in which a hit brought a player to hp 0, the
\* projectile list holds no active projectile and the snapshot reports none.
C3_PurgeOnGameOver ==
    (ev.op = "update" /\ Kills # {})
    => /\ \A i \in 1..Len(projectiles) : ~projectiles[i].active
       /\ get_network_state(HostState).projectiles = <<>>

\* C4: an update() call whose hit brings the target to hp 0 or below leaves
\* that hp at 0, the game over, the projectile's owner as winner, the owner's
\* score one higher and the other score as it was.
C4_KillSettlesRound ==
    [][IsUpdate =>
        \A k \in 1..Len(ev'.hits) :
            ev'.hits[k].kill =>
                /\ players'[ev'.hits[k].target].hp = 0
                /\ game_over'
                /\ winner' = ev'.hits[k].owner
                /\ scores'[ev'.hits[k].owner] = scores[ev'.hits[k].owner] + 1
                /\ scores'[3 - ev'.hits[k].owner] = scores[3 - ev'.hits[k].owner]]_vars

\* C4 witness: the last update() killed player 1 with a projectile in flight
C4_Witness ==
    /\ ev.op = "update"
    /\ \E k \in Kills : ev.hits[k].phase = "tick" /\ ev.hits[k].target = 1
    /\ game_over
    /\ winner = 2

\* C5: in a round begun at scores 0:0 in which only normal projectiles of
\* player 1 have hit, and only player 2, the game is not over while fewer
\* than 10 have hit, and with the 10th hit player 2 has hp 0, the game is
\* over, the winner is player 1 and the scores are 1:0.
C5_TenHitsEndTheRound ==
    (round.start_scores[1] = 0 /\ round.start_scores[2] = 0 /\ ~round.other)
    => /\ round.normal12 <= 10
       /\ round.normal12 < 10 =>
            /\ ~game_over
            /\ players[2].hp = MAX_HP - round.normal12
       /\ round.normal12 = 10 =>
            /\ players[2].hp = 0
            /\ players[1].hp = MAX_HP
            /\ game_over
            /\ winner = 1
            /\ scores[1] = 1
            /\ scores[2] = 0

\* C5 witness: the 10th normal hit of player 1 has landed
C5_Witness ==
    /\ round.normal12 = 10
    /\ ~round.other
    /\ ev.op = "update"
    /\ Kills # {}

\* C6: an update() call made while the game is over changes neither the
\* players, nor the fences, nor the projectile list, nor scores, winner or
\* game_over.
C6_UpdateAfterGameOverIsNoOp ==
    [][(IsUpdate /\ game_over) =>
        UNCHANGED <<players, fences, projectiles, scores, winner, game_over>>]_vars

\* C6 witness: update() was called with the game over
C6_Witness ==
    /\ ev.op = "update"
    /\ ev.was_over
    /\ game_over

\* C7: the fireball damage is the hp divided by 3 and rounded up, for every
\* hp from 1 to MAX_HP (4 at 10, 1 at 3, 1 at 1, never below 1), and that is
\* what every fireball hit of an update() call takes off.
C7_FireballDamage ==
    /\ \A hp \in 1..MAX_HP :
          /\ FireballDamage(hp) = (hp + 2) \div 3
          /\ FireballDamage(hp) >= 1
    /\ FireballDamage(10) = 4
    /\ FireballDamage(3) = 1
    /\ FireballDamage(1) = 1
    /\ \A k \in 1..Len(ev.hits) :
          ev.hits[k].type = "fireball" =>
              /\ ev.hits[k].hp \in 1..MAX_HP
              /\ ev.hits[k].damage = (ev.hits[k].hp + 2) \div 3

\* C7 witness: a fireball has hit a player of hp 3 and taken 1
C7_Witness ==
    /\ ev.op = "update"
    /\ \E k \in 1..Len(ev.hits) :
          /\ ev.hits[k].type = "fireball"
          /\ ev.hits[k].hp = 3
          /\ ev.hits[k].damage = 1

\* C8: a projectile overlapping closed fences in the projectile loop is kept
\* active exactly when its owner is close to every closed fence it overlaps;
\* one that overlaps open fences only is always kept.
C8_WallPassThrough ==
    \A k \in 1..Len(ev.fev) :
        /\ ev.fev[k].closed # {} =>
              (ev.fev[k].kept <=> ev.fev[k].closed \subseteq ev.fev[k].near)
        /\ ev.fev[k].closed = {} => ev.fev[k].kept

\* the diagonal moves of living players in the last update()
Diagonal(p) ==
    /\ ev.op = "update"
    /\ ev.moves # <<>>
    /\ ev.moves[p].alive
    /\ ev.moves[p].dx # 0
    /\ ev.moves[p].dy # 0

\* X was kept and Y took the vertical step
SlidY(p) == players[p].x = ev.moves[p].old_x /\ players[p].y = ev.moves[p].potential_y
\* X took the horizontal step and Y was kept
SlidX(p) == players[p].x = ev.moves[p].potential_x /\ players[p].y = ev.moves[p].old_y

\* C9 as stated: on a diagonal input, a blocked horizontal-only displacement
\* with a free vertical-only one keeps X and moves Y; and a blocked
\* vertical-only displacement with a free horizontal-only one moves X and
\* keeps Y.
C9_AxisSplitSymmetric ==
    \A p \in {1, 2} :
        Diagonal(p) =>
            /\ (ev.moves[p].h_only /\ ~ev.moves[p].v_only) => SlidY(p)
            /\ (ev.moves[p].v_only /\ ~ev.moves[p].h_only) => SlidX(p)

\* C9 amended: on a diagonal input, a blocked horizontal-only displacement
\* with a free vertical-only one keeps X and moves Y; a free horizontal-only
\* displacement moves X, and Y is then kept exactly when the vertical
\* displacement collides at the new X.
C9_AxisSplit ==
    \A p \in {1, 2} :
        Diagonal(p) =>
            /\ (ev.moves[p].h_only /\ ~ev.moves[p].v_only) => SlidY(p)
            /\ (~ev.moves[p].h_only /\ ev.moves[p].v_joint) => SlidX(p)
            /\ (~ev.moves[p].h_only /\ ~ev.moves[p].v_joint) =>
                  /\ players[p].x = ev.moves[p].potential_x
                  /\ players[p].y = ev.moves[p].potential_y

\* C9 witness: in one update() player 2 was blocked horizontally only and
\* slid along Y, and player 1 was blocked vertically at the new X and slid
\* along X
C9_Witness ==
    /\ Diagonal(1)
    /\ Diagonal(2)
    /\ ev.moves[2].h_only /\ ~ev.moves[2].v_only
    /\ players[2].y # ev.moves[2].old_y
    /\ ~ev.moves[1].h_only /\ ev.moves[1].v_joint
    /\ players[1].x # ev.moves[1].old_x

\* C10: once the client has applied the snapshot it holds twice in a row,
\* its whole state (players, fences, projectiles, game_over, winner, scores
\* and its projectile id counter) is what the first application left.
C10_SnapshotIdempotent ==
    applied.count >= 2 => cl = applied.first

\* C10 witness: a snapshot that made the client construct a projectile has
\* been applied twice
C10_Witness ==
    /\ applied.count >= 2
    /\ Ids(cl.projectiles) \ Ids(applied.before.projectiles) # {}
    /\ cl.next_id > applied.before.next_id
    /\ ~cl.game_over

\* the ids the snapshot last applied reports as active
ReportedActive == Ids(ActiveOnly(applied.snap[1].projectiles))

\* C11: once the client has applied a snapshot of the host, the ids in its
\* projectile list are exactly the ids of the active projectiles that
\* snapshot reports.
C11_ReconciliationConverges ==
    applied.count >= 1 => Ids(cl.projectiles) = ReportedActive

\* C12: the ids the host hands out over the session, through update() and
\* reset() calls, are strictly increasing, so no two projectiles ever
\* created receive the same id.
C12_IdsUniqueInSession ==
    \A a, b \in 1..Len(issued) : a < b => issued[a].id < issued[b].id

\* C13: at the end of every update() call the host's projectile list holds
\* no projectile with active = false.
C13_NoInactiveAfterUpdate ==
    ev.op = "update" => \A i \in 1..Len(projectiles) : projectiles[i].active

\* the counter the snapshot last applied calls for, from the counter the
\* client had before: max(local, 1 + highest id in the snapshot, the
\* snapshot's reported counter)
CounterCalledFor ==
    Max2(Max2(applied.before.next_id,
              MaxId(Ids(applied.snap[1].projectiles), -1) + 1),
         applied.snap[1].next_proj_id)

\* C14: after the client applied a snapshot its projectile id counter is
\* max(counter before, 1 + highest projectile id in the snapshot, the
\* snapshot's counter), and the counter never decreases.
C14_CounterIsTheMaximum ==
    /\ [](applied.count >= 1 => cl.next_id = CounterCalledFor)
    /\ [][cl.next_id' >= cl.next_id]_vars

\* C15: once the client has applied a snapshot that declares game_over, its
\* projectile list is empty, whatever the snapshot carries and whatever the
\* client held before.
C15_GameOverClearsProjectiles ==
    (applied.count >= 1 /\ applied.snap[1].game_over) => cl.projectiles = <<>>

\* C15 witness: a game-over snapshot that carries projectile entries has
\* been applied by a client that held projectiles
C15_Witness ==
    /\ applied.count >= 1
    /\ applied.snap[1].game_over
    /\ applied.snap[1].projectiles # <<>>
    /\ applied.before.projectiles # <<>>
    /\ cl.projectiles = <<>>

\* the ids of a fence list, in list order
FenceIdList(fs) == [i \in 1..Len(fs) |-> fs[i].id]

\* C16: the client's fences are the ones of its map load and the host's the
\* ones of its own, whatever update(), reset() and set_network_state did;
\* after a snapshot was applied, every local fence whose id the snapshot
\* carries has its is_open, last_interactor and last_interaction_time, and
\* every other local fence is as it was before.
C16_FencesKeptAndOverwritten ==
    /\ FenceIdList(cl.fences) = FenceIdList(ClientLayout)
    /\ FenceIdList(fences) = FenceIdList(Layout)
    /\ applied.count >= 1 =>
          \A i \in 1..Len(cl.fences) :
             IF cl.fences[i].id \in Ids(applied.snap[1].fences)
             THEN /\ cl.fences[i].is_open =
                        Entry(applied.snap[1].fences, cl.fences[i].id).is_open
                  /\ cl.fences[i].last_interactor =
                        Entry(applied.snap[1].fences, cl.fences[i].id).last_interactor
                  /\ cl.fences[i].last_interaction_time =
                        Entry(applied.snap[1].fences, cl.fences[i].id).last_interaction_time
             ELSE cl.fences[i] = applied.before.fences[i]

\* C16 witness: the applied snapshot carried the wall opened by player 2,
\* the client's fence of that id was closed before and is open now, and
\* the client has a fence the snapshot does not carry
C16_Witness ==
    /\ applied.count >= 1
    /\ \E i \in 1..Len(cl.fences) :
          /\ cl.fences[i].id \in Ids(applied.snap[1].fences)
          /\ cl.fences[i].is_open
          /\ cl.fences[i].last_interactor = 2
          /\ cl.fences[i].last_interaction_time > 0
          /\ ~applied.before.fences[i].is_open
    /\ \E i \in 1..Len(cl.fences) :
          cl.fences[i].id \notin Ids(applied.snap[1].fences)

\* what decode_data returned for a malformed client message: None for an
\* undecodable payload, or a dict of the wrong shape (no "input", or an
\* "input" that is not a dict)
IsMalformed(decoded) ==
    \/ decoded = <<>>
    \/ /\ IsDict(decoded[1])
       /\ \/ "input" \notin DOMAIN decoded[1]
          \/ ~IsDict(decoded[1].input)

\* C17: when the receiver thread, the mailbox holding a dict, handles a read
\* that holds a single message and that message is malformed, the mailbox
\* and the game state keep their values, the thread keeps receiving, and
\* the game loop keeps running with app_running set.
C17_MalformedMessageDiscarded ==
    [][(/\ rx'.all # rx.all
        /\ Len(rx'.got) = 1
        /\ FirstNewline(partial_data') = 0
        /\ IsMalformed(rx'.got[1])
        /\ IsDict(client_input_buffer))
       => /\ client_input_buffer' = client_input_buffer
          /\ handler' = "receiving"
          /\ host_loop' = host_loop
          /\ app_running' = app_running
          /\ UNCHANGED hostVars]_vars

\* C18: set_network_state given a top-level message that is not a dict
\* discards it wholesale: no field of the client's game state changes.
C18_NonDictDiscarded ==
    (applied.count >= 1 /\ ~IsDict(applied.snap[1])) => cl = applied.before

\* C18 witness: a client that holds projectiles in a running round has
\* applied a message that is a number
C18_Witness ==
    /\ applied.count >= 1
    /\ ~IsDict(applied.snap[1])
    /\ cl.projectiles # <<>>
    /\ ~cl.game_over

\* C19: after set_network_state has applied a snapshot that omits scores,
\* game_over, winner or an attribute of a player, or carries a malformed
\* value for it, that field has its prior local value and every other of
\* these fields has the value the snapshot carries.
C19_DamagedFieldsKept ==
    (applied.count = 1 /\ IsDict(applied.snap[1])) =>
        LET ns == applied.snap[1]
            prior == applied.before
        IN  /\ cl.scores = IF "scores" \in DOMAIN ns
                           THEN [p \in {1, 2} |-> ns.scores[StrOf(p)]]
                           ELSE prior.scores
            /\ cl.game_over = Get(ns, "game_over", prior.game_over)
            /\ cl.winner = Get(ns, "winner", prior.winner)
            /\ \A p \in {1, 2}, i \in 1..Len(PlayerFields) :
                  cl.players[p][PlayerFields[i]]
                     = Get(ns.players[StrOf(p)], PlayerFields[i],
                           prior.players[p][PlayerFields[i]])

\* the bytes of messages sent one after the other, each with its newline
RECURSIVE Stream(_)
Stream(payloads) ==
    IF payloads = <<>> THEN <<>>
    ELSE Head(payloads) \o <<NEWLINE>> \o Stream(Tail(payloads))

\* C20: however the transport splits the stream of newline-terminated
\* messages into reads, the receiver has decoded exactly the first
\* messages sent, each once and in send order, and the bytes of the
\* messages not yet decoded are all in its buffer or still on the wire;
\* between reads the buffer holds only an unterminated tail.
C20_Framing ==
    /\ Len(rx.all) <= Len(sent)
    /\ rx.all = [i \in 1..Len(rx.all) |-> decode_data(sent[i])]
    /\ partial_data \o wire = Stream(SubSeq(sent, Len(rx.all) + 1, Len(sent)))
    /\ handler = "receiving" => FirstNewline(partial_data) = 0

\* C20 witness: a read found the tail of an earlier read in the buffer,
\* completed that message and carried a further complete message and the
\* beginning of a third, which stays buffered
C20_Witness ==
    /\ rx.tail # <<>>
    /\ Len(rx.got) >= 2
    /\ partial_data # <<>>
    /\ handler = "receiving"

\* what decode_data returned for a message that carries an input
HasInput(decoded) ==
    Truthy(decoded) /\ IsDict(decoded[1]) /\ "input" \in DOMAIN decoded[1]

\* C21: once the mailbox holds the disconnect sentinel, every step of the
\* receiver thread and of the game loop, in any interleaving, leaves it
\* there, except that the game loop empties the mailbox when it consumes
\* the sentinel and leaves its loop, and an accepted connection empties it.
C21_StickyDisconnect ==
    [][client_input_buffer = DisconnectSentinel
       => \/ client_input_buffer' = DisconnectSentinel
          \/ /\ client_input_buffer' = EmptyDict
             /\ host_loop = "running"
             /\ host_loop' = "left"
          \/ /\ client_input_buffer' = EmptyDict
             /\ host_loop = "waiting"
             /\ host_loop' = "running"]_vars

\* C21 witness: the receiver thread has just handled a message carrying an
\* input while the mailbox held the sentinel, which is still there
C21_Witness ==
    /\ client_input_buffer = DisconnectSentinel
    /\ rx.before = DisconnectSentinel
    /\ rx.got # <<>>
    /\ HasInput(rx.got[Len(rx.got)])
    /\ handler \in {"receiving", "processing"}

\* the input carried by the last message handled that carries one
LastInput ==
    LET with == {i \in 1..Len(rx.all) : HasInput(rx.all[i])}
    IN  rx.all[CHOOSE i \in with : \A j \in with : j <= i][1].input

\* C22: a mailbox that holds a client input holds the one the receiver
\* thread handled last; a frame that calls update() passes it the input in
\* the mailbox, or the neutral intent when the mailbox is empty, and leaves
\* the mailbox empty.
C22_SingleSlotMailbox ==
    /\ []((/\ IsDict(client_input_buffer)
            /\ client_input_buffer \notin {EmptyDict, DisconnectSentinel})
           => client_input_buffer = LastInput)
    /\ [][IsUpdate
          => /\ client_input_buffer' = EmptyDict
             /\ rx'.remote_p2_input_copy
                  = IF client_input_buffer = EmptyDict THEN Idle
                    ELSE InputOf(client_input_buffer)]_vars

\* C22 witness: the first update() has run with the later of two different
\* inputs the receiver thread had stored, and the mailbox is empty
C22_Witness ==
    /\ ticks = 1
    /\ ev.op = "update"
    /\ rx.remote_p2_input_copy = ShootFire
    /\ client_input_buffer = EmptyDict
    /\ \E i, j \in 1..Len(rx.all) :
          /\ i < j
          /\ rx.all[i] = <<InputDoc(Shoot)>>
          /\ rx.all[j] = <<InputDoc(ShootFire)>>

\* C23: game_over turns true only in an update() in which a hit brings a
\* player's hp to 0, and turns false only in reset(); the host and couch
\* drivers call reset() only while game_over is true and update() only
\* while it is false; and while game_over stays true no step changes the
\* game state.
C23_RoundStateMachine ==
    [][/\ (~game_over /\ game_over')
            => (ev'.op = "update" /\ \E k \in 1..Len(ev'.hits) : ev'.hits[k].kill)
       /\ (game_over /\ ~game_over') => ev'.op = "reset"
       /\ (ev' # ev /\ ev'.op = "reset") => game_over
       /\ IsUpdate => ~game_over
       /\ (game_over /\ game_over')
            => UNCHANGED <<players, fences, projectiles, next_id, winner, scores>>]_vars

\* C23 witness: with the round over, the host's game loop has read a
\* mailbox that holds an input without a reset request and has not taken
\* it; the input is still there
C23_Witness ==
    /\ game_over
    /\ host_loop = "running"
    /\ rx.mailbox_read = Shoot
    /\ rx.remote_p2_input_copy = Idle
    /\ client_input_buffer = Shoot

\* C24: reset() puts both players at their validated start positions with
\* hp = MAX_HP and zeroed shot and fireball timers, puts every fence at
\* closed, no interactor, interaction time 0 while keeping its id and
\* bounds, empties the projectile list, sets game_over = false and
\* winner = none, and leaves scores unchanged.
C24_ResetRestoresRound ==
    [][(ev' # ev /\ ev'.op = "reset")
       => /\ \A p \in {1, 2} :
                /\ players'[p].x = Px(start_positions[p].x)
                /\ players'[p].y = Px(start_positions[p].y)
                /\ players'[p].hp = MAX_HP
                /\ players'[p].last_shot_time = 0
                /\ players'[p].last_fireball_time = 0
          /\ Len(fences') = Len(fences)
          /\ \A i \in 1..Len(fences) :
                fences'[i] = [fences[i] EXCEPT !.is_open = FALSE,
                                               !.last_interactor = None,
                                               !.last_interaction_time = 0]
          /\ projectiles' = <<>>
          /\ ~game_over'
          /\ winner' = None
          /\ scores' = scores]_vars

\* C24 witness: reset() has been called on a finished round in which a
\* fence stood open and projectiles were listed, as the snapshot the client
\* received during that game over shows; a player has scored
C24_Witness ==
    /\ ev.op = "reset"
    /\ scores # [p \in {1, 2} |-> 0]
    /\ last_received_state # <<>>
    /\ last_received_state[1].game_over
    /\ last_received_state[1].scores = [k \in {"1", "2"} |-> scores[IntOf(k)]]
    /\ \E i \in 1..Len(last_received_state[1].fences) :
          last_received_state[1].fences[i].is_open

\* C25: when the client has disconnected and the host's game loop has ended
\* the session, the host comes back to waiting for a player.
C25_HostWaitsAgain == (host_loop = "left") ~> (host_loop = "waiting")

\* C26: Fence.toggle(p, now) returns true exactly when last_interactor is
\* none, or now - last_interaction_time >= COOLDOWN_DURATION_MS, or
\* last_interactor = p; on true the fence is flipped with last_interactor = p
\* and last_interaction_time = now, on false the fence is as it was.
C26_ToggleContract ==
    LET F == fcall.before
    IN  fcall.player_id # None
        => /\ fcall.returned
                <=> \/ F.last_interactor = None
                    \/ fcall.t - F.last_interaction_time >= COOLDOWN_DURATION_MS
                    \/ F.last_interactor = fcall.player_id
           /\ fcall.returned
                => ufence = [F EXCEPT !.is_open = ~F.is_open,
                                      !.last_interactor = fcall.player_id,
                                      !.last_interaction_time = fcall.t]
           /\ ~fcall.returned => ufence = F

\* C26 witness: the other player toggled at exactly the end of the window
\* and the fence flipped
C26_Witness ==
    /\ fcall.player_id # None
    /\ fcall.before.last_interactor # None
    /\ fcall.before.last_interactor # fcall.player_id
    /\ fcall.t = fcall.before.last_interaction_time + COOLDOWN_DURATION_MS
    /\ fcall.returned
    /\ ufence.is_open = ~fcall.before.is_open

\* player p's fireball timer was set in this update(): p spawned a fireball
FiredFireball(p) ==
    players'[p].last_fireball_time = now' /\ ~ZeroFacing(players'[p])

\* the fireball p spawns from where it stands overlaps the other player
SpawnOverlaps(p) ==
    LET owner == players'[p]
        other == players'[3 - p]
        offset_dist == Px(PLAYER_RADIUS + FIREBALL_RADIUS + SPAWN_BUFFER)
    IN  check_circle_collision(owner.x + Along(owner.last_dx, owner.last_dy, offset_dist),
                               owner.y + Along(owner.last_dy, owner.last_dx, offset_dist),
                               FIREBALL_RADIUS, other.x, other.y, PLAYER_RADIUS)

\* the hits of this update() made by p's fireball in the immediate check
ImmediateHits(p) ==
    {k \in 1..Len(ev'.hits) : ev'.hits[k].phase = "immediate" /\ ev'.hits[k].owner = p}

\* what an update() does with the fireball p spawned in it, when the
\* fireball is one the immediate check has to resolve and when it is not
ImmediateOutcome(p, to_resolve) ==
    IF to_resolve
    THEN /\ Cardinality(ImmediateHits(p)) = 1
         /\ \A k \in ImmediateHits(p) :
               /\ ev'.hits[k].target = 3 - p
               /\ ev'.hits[k].type = "fireball"
               /\ ev'.hits[k].damage = (ev'.hits[k].hp + 2) \div 3
               /\ \A j \in 1..Len(ev'.hits) :
                     /\ j < k => ev'.hits[j].phase = "immediate"
                     /\ j # k => ev'.hits[j].proj # ev'.hits[k].proj
         /\ \A i \in 1..Len(projectiles') :
               (/\ projectiles'[i].id >= next_id
                /\ projectiles'[i].owner_id = p
                /\ projectiles'[i].type = "fireball") => ~projectiles'[i].active
    ELSE ImmediateHits(p) = {}

EndedBefore(p) ==
    p = 2 /\ \E k \in ImmediateHits(1) : ev'.hits[k].kill

TickKill ==
    /\ ev.op = "update"
    /\ ev.hits # <<>>
    /\ ev.hits[Len(ev.hits)].phase = "tick"
    /\ ev.hits[Len(ev.hits)].kill

\* the list indices the projectile loop left without handling them, the
\* projectile there being active
Unreached ==
    {i \in 1..Len(ev.listed) :
        /\ ev.listed[i].active
        /\ \A k \in 1..Len(ev.order) : ev.order[k] # i}

\* the projectile at list index i, had the loop handled it, would have
\* killed the player who won the round
WouldKillWinner(i) ==
    LET moved == ProjectileUpdate(ev.listed[i])
        target == players[winner]
        owner == players[moved.owner_id]
        collided_fence == get_colliding_fence(moved, fences)
    IN  /\ ev.listed[i].owner_id # winner
        /\ moved.active
        /\ \/ collided_fence = 0
           \/ is_player_close_to_fence(owner.x, owner.y, PLAYER_RADIUS,
                                       fences[collided_fence])
        /\ check_circle_collision(moved.x, moved.y, moved.radius,
                                  target.x, target.y, PLAYER_RADIUS)
        /\ HpLeft(target.hp, Damage(moved.type, target.hp)) <= 0

\* C28 as stated: the projectile loop handles the active projectiles in
\* list order, earliest-created first, so that a projectile that would
\* have killed the winner of the round stands later in the list than the
\* one that decided the round.
C28_ListOrder ==
    /\ \A j, k \in 1..Len(ev.order) : j < k => ev.order[j] < ev.order[k]
    /\ TickKill => \A i \in Unreached :
                      WouldKillWinner(i) => i > ev.order[Len(ev.order)]

\* C28 amended: the loop handles the active projectiles from the end of
\* the list to its start, latest-created first, so that of two projectiles
\* that would each kill in one update() the later one in the list decides
\* the winner.
C28_ReverseListOrder ==
    /\ \A j, k \in 1..Len(ev.order) : j < k => ev.order[j] > ev.order[k]
    /\ TickKill => \A i \in Unreached :
                      WouldKillWinner(i) => i < ev.order[Len(ev.order)]

\* C28 witness: an update() ended the round in the projectile loop while
\* a projectile of the loser that would have killed the winner was left
\* unhandled
C28_Witness ==
    /\ TickKill
    /\ \E i \in Unreached : WouldKillWinner(i)

\* the list indices of the projectiles player p spawned in this update()
Spawned(p, type) ==
    {i \in 1..Len(ev'.listed) :
        /\ ev'.listed[i].id >= next_id
        /\ ev'.listed[i].owner_id = p
        /\ ev'.listed[i].type = type}

\* what this update() spawned for player p is what the intent inp and the
\* two timers allow
Gated(p, inp) ==
    /\ Cardinality(Spawned(p, "normal")) <= 1
    /\ Cardinality(Spawned(p, "fireball")) <= 1
    /\ Spawned(p, "normal") # {} =>
          /\ players[p].hp > 0
          /\ inp.action_shoot
          /\ now' - players[p].last_shot_time > SHOOT_COOLDOWN_MS
          /\ players'[p].last_shot_time = now'
    /\ Spawned(p, "fireball") # {} =>
          /\ players[p].hp > 0
          /\ inp.action_fireball
          /\ now' - players[p].last_fireball_time > FIREBALL_COOLDOWN_MS
          /\ players'[p].last_fireball_time = now'

\* every update() spawns for each player what its intent and timers allow
GatedUpdates ==
    [][\A in1 \in {Idle, ShootFire}, in2 \in {Shoot, ShootFire},
          dt \in {DtShort, DtLong} \cap {now' - now} :
          Update(in1, in2, dt) => Gated(1, in1) /\ Gated(2, in2)]_vars

CooldownOf(type) ==
    IF type = "fireball" THEN FIREBALL_COOLDOWN_MS ELSE SHOOT_COOLDOWN_MS

\* the projectiles made at positions a and b of issued are of one player
\* and one type
SameShooter(a, b) ==
    /\ issued[a].owner_id = issued[b].owner_id
    /\ issued[a].type = issued[b].type

\* no reset() lies between the projectiles made at positions a < b: the
\* counter went up by one from each to the next
SameRound(a, b) ==
    \A k \in a..(b - 1) : issued[k + 1].id = issued[k].id + 1

\* C29 as stated: a player spawns a normal projectile in an update() only
\* with action_shoot set and more than SHOOT_COOLDOWN_MS after its shot
\* timer, a fireball only with action_fireball set and more than
\* FIREBALL_COOLDOWN_MS after its fireball timer; the spawn sets the timer
\* to now, a player spawns at most one projectile of each type per
\* update(), and any two spawns of one type by one player are more than
\* the cooldown apart.
C29_ShotGating ==
    /\ GatedUpdates
    /\ [](\A a, b \in 1..Len(issued) :
            (a < b /\ SameShooter(a, b))
            => issued[b].t - issued[a].t > CooldownOf(issued[a].type))

\* C29 amended: the same, the two spawns being of one round; reset() sets
\* both timers back to 0, so the first spawn of a round is not held back
\* by a spawn of the round before.
C29_ShotGatingInRound ==
    /\ GatedUpdates
    /\ [](\A a, b \in 1..Len(issued) :
            (a < b /\ SameShooter(a, b) /\ SameRound(a, b))
            => issued[b].t - issued[a].t > CooldownOf(issued[a].type))

\* C29 witness: player 2, who asks for a shot in every update(), has
\* spawned two normal projectiles in one round three short clock steps
\* apart: the two update() calls between them spawned none
C29_Witness ==
    \E a, b \in 1..Len(issued) :
        /\ a < b
        /\ SameRound(a, b)
        /\ issued[a].owner_id = 2
        /\ issued[b].owner_id = 2
        /\ issued[a].type = "normal"
        /\ issued[b].type = "normal"
        /\ issued[b].t - issued[a].t = 3 * DtShort

\* the distance from v to the interval lo..hi
Outside(v, lo, hi) == IF v < lo THEN lo - v ELSE IF v > hi THEN v - hi ELSE 0

\* the squared distance from player p, where update() left it, to the
\* closest point of the rectangle of fence i
ReachSq(p, i) ==
    LET r == fences[i].rect
        dx == Outside(players'[p].x, Px(r.x), Px(r.x + r.w))
        dy == Outside(players'[p].y, Px(r.y), Px(r.y + r.h))
    IN  dx * dx + dy * dy

\* the fences in range of player p
Reachable(p) ==
    {i \in 1..Len(fences) :
        ReachSq(p, i) < Px(INTERACTION_DISTANCE) * Px(INTERACTION_DISTANCE)}

\* the fence in range of smallest distance to player p, of smallest id
\* among those of that distance
Nearest(p) ==
    CHOOSE i \in Reachable(p) :
        \A j \in Reachable(p) :
            \/ ReachSq(p, i) < ReachSq(p, j)
            \/ ReachSq(p, i) = ReachSq(p, j) /\ fences[i].id <= fences[j].id

\* the fences after the interact of player p with intent inp, from fs
AfterInteract(p, inp, fs) ==
    IF inp.action_interact /\ Reachable(p) # {}
    THEN [fs EXCEPT ![Nearest(p)] = toggle(fs[Nearest(p)], p, now')]
    ELSE fs

\* C30: in an update() of a running round, the interact of a player calls
\* toggle on exactly one fence, open or closed: the one in range of
\* smallest distance, the first in id order among those of that distance;
\* without a fence in range, or without the interact intent, no fence
\* changes.
C30_InteractNearest ==
    [][\A in1 \in {StepRight,
                    Inp({"d", "s"}, FALSE, FALSE, FALSE),
                    Inp({"d", "w"}, FALSE, TRUE, FALSE),
                    Inp({}, TRUE, FALSE, FALSE),
                    Shoot},
          in2 \in {Idle, Inp({"a", "w"}, FALSE, FALSE, FALSE)} :
          (~game_over /\ Update(in1, in2, DtLong))
          => fences' = AfterInteract(2, in2, AfterInteract(1, in1, fences))]_vars

\* C30 witness: an update() has just toggled a fence for player 1 that is
\* not the first in the list in range: a fence before it in the list is
\* in range as well, and farther away
C30_Witness ==
    /\ ev.op = "update"
    /\ \E n \in 1..Len(fences) :
          /\ fences[n].last_interactor = 1
          /\ fences[n].last_interaction_time = now
          /\ \E j \in 1..(n - 1) :
                LET Sq(i) ==
                        LET r == fences[i].rect
                            dx == Outside(players[1].x, Px(r.x), Px(r.x + r.w))
                            dy == Outside(players[1].y, Px(r.y), Px(r.y + r.h))
                        IN  dx * dx + dy * dy
                IN  /\ Sq(j) < Px(INTERACTION_DISTANCE) * Px(INTERACTION_DISTANCE)
                    /\ Sq(n) < Sq(j)
                    /\ fences[j].last_interactor = None

\* the Fence.toggle calls of the last update() on fence i that returned
\* True
Flips(i) ==
    {k \in 1..Len(ev.toggles) : ev.toggles[k].fence = i /\ ev.toggles[k].returned}

\* player 2 holds the cooldown of the fence f at the time now
HeldByTwo(f) ==
    /\ f.last_interactor = 2
    /\ now - f.last_interaction_time < COOLDOWN_DURATION_MS

\* C31: in one update() a fence flips at most once; when both players
\* call toggle on one fence, exactly one call takes effect: player 1's,
\* unless player 2 holds the fence's unexpired cooldown, and the fence is
\* left as that one call leaves it.
C31_SameTickArbitration ==
    ev.op = "update" =>
        /\ \A i \in 1..Len(fences) : Cardinality(Flips(i)) <= 1
        /\ (/\ Len(ev.toggles) = 2
            /\ ev.toggles[1].fence = ev.toggles[2].fence)
           => LET i == ev.toggles[1].fence
                  f == ev.toggles[1].before
                  by == IF HeldByTwo(f) THEN 2 ELSE 1
              IN  /\ Cardinality(Flips(i)) = 1
                  /\ \A k \in Flips(i) : ev.toggles[k].player_id = by
                  /\ fences[i] = [f EXCEPT !.is_open = ~f.is_open,
                                           !.last_interactor = by,
                                           !.last_interaction_time = now]

\* C31 witness: both players called toggle on one fence in the last
\* update(), player 2 holding its cooldown: player 1 was refused and
\* player 2's call flipped the fence
C31_Witness ==
    /\ ev.op = "update"
    /\ Len(ev.toggles) = 2
    /\ ev.toggles[1].fence = ev.toggles[2].fence
    /\ ev.toggles[1].player_id = 1
    /\ ~ev.toggles[1].returned
    /\ ev.toggles[2].player_id = 2
    /\ ev.toggles[2].returned

\* the players whose hp is 0
Dead == {p \in {1, 2} : players[p].hp = 0}

\* C32: on the host game_over holds exactly when a player has hp 0; then
\* exactly one player has, and the winner is the other one, with hp above
\* 0; while game_over does not hold both players have hp above 0 and
\* there is no winner.
C32_GameOverIffDead ==
    /\ game_over <=> Dead # {}
    /\ game_over =>
          /\ Cardinality(Dead) = 1
          /\ winner \in {1, 2} \ Dead
          /\ players[winner].hp > 0
    /\ ~game_over =>
          /\ \A p \in {1, 2} : players[p].hp > 0
          /\ winner = None

\* C32 witness: a round that ended in an update() in which the loser, at
\* hp 1 like the winner, had a killing projectile of its own in the list
C32_Witness ==
    /\ game_over
    /\ TickKill
    /\ players[winner].hp = 1
    /\ \E i \in Unreached : WouldKillWinner(i)
    /\ Dead = {3 - winner}

\* the damage the hits k..Len(hits) of a list did to player p
RECURSIVE DamageTo(_, _, _)
DamageTo(hits, p, k) ==
    IF k > Len(hits) THEN 0
    ELSE (IF hits[k].target = p THEN hits[k].damage ELSE 0) + DamageTo(hits, p, k + 1)

\* the projectile of this id was active when update() was called, or was
\* made in the call
WasActive(id) ==
    \/ id >= next_id
    \/ \E i \in 1..Len(projectiles) : projectiles[i].id = id /\ projectiles[i].active

\* after the update() the projectile of this id is out of the list, or is
\* listed inactive in a round that is over
Spent(id) ==
    \A i \in 1..Len(projectiles') :
        projectiles'[i].id = id => ~projectiles'[i].active /\ game_over'

\* C33: hp goes down only in update(), by the damage of the hits made
\* there; every hit is made by a projectile that was active and belongs to
\* the other player, no projectile hits twice in one call, and after the
\* call the projectile is spent; a projectile is listed inactive only in a
\* round that is over, where update() tests nothing.
C33_OneHitPerProjectile ==
    /\ [][/\ \A p \in {1, 2} :
               players'[p].hp < players[p].hp
               => /\ IsUpdate
                  /\ players[p].hp - players'[p].hp = DamageTo(ev'.hits, p, 1)
          /\ IsUpdate =>
               \A k \in 1..Len(ev'.hits) :
                  /\ ev'.hits[k].owner # ev'.hits[k].target
                  /\ ev'.hits[k].damage > 0
                  /\ WasActive(ev'.hits[k].proj)
                  /\ Spent(ev'.hits[k].proj)
                  /\ \A j \in 1..Len(ev'.hits) :
                        j # k => ev'.hits[j].proj # ev'.hits[k].proj]_vars
    /\ [](\A i \in 1..Len(projectiles) : ~projectiles[i].active => game_over)

\* C33 witness: the last update() hit both players, one in the immediate
\* check and one in the projectile loop, the round goes on and every
\* projectile left in the list is active
C33_Witness ==
    /\ ev.op = "update"
    /\ ~game_over
    /\ \E j, k \in 1..Len(ev.hits) :
          /\ ev.hits[j].phase = "immediate"
          /\ ev.hits[k].phase = "tick"
          /\ ev.hits[j].target # ev.hits[k].target
    /\ projectiles # <<>>
    /\ \A i \in 1..Len(projectiles) : projectiles[i].active

\* the two players of a list overlap
PlayersOverlap(ps) ==
    check_circle_collision(ps[1].x, ps[1].y, PLAYER_RADIUS,
                           ps[2].x, ps[2].y, PLAYER_RADIUS)

\* player p of a list overlaps a closed fence of fs
InFence(ps, p, fs) ==
    check_player_fence_collision(ps[p].x, ps[p].y, PLAYER_RADIUS, fs)

C35_PlayersInsideField ==
    \A p \in {1, 2} :
        /\ Px(PLAYER_RADIUS) <= players[p].x
        /\ players[p].x <= Px(WIDTH - PLAYER_RADIUS)
        /\ Px(PLAYER_RADIUS) <= players[p].y
        /\ players[p].y <= Px(HEIGHT - PLAYER_RADIUS)

\* C35 witness: player 1 stood less than a step from the upper edge,
\* walked up, and stands at the edge
C35_Witness ==
    /\ ev.op = "update"
    /\ ev.moves # <<>>
    /\ ev.moves[1].dy = -1
    /\ ev.moves[1].dx = 0
    /\ ev.moves[1].old_y > Px(PLAYER_RADIUS)
    /\ ev.moves[1].old_y - Px(PLAYER_SPEED) < Px(PLAYER_RADIUS)
    /\ players[1].y = Px(PLAYER_RADIUS)

\* the mailbox holds a reset request
ResetAsked ==
    /\ Truthy(<<client_input_buffer>>)
    /\ IsDict(client_input_buffer)
    /\ ~Get(client_input_buffer, "disconnect", FALSE)
    /\ Get(client_input_buffer, "action_reset", FALSE)

\* C36: a reset request that the receiver thread has put into the mailbox
\* while the round is over and the game loop runs leads to reset() being
\* called, whatever arrives afterwards, unless the game loop ends.
C36_ResetRequestDelivered ==
    (game_over /\ host_loop = "running" /\ ticks < RoundTicks /\ ResetAsked)
    ~> (~game_over \/ host_loop # "running")

\* the ids of a projectile list are pairwise distinct and below a counter
IdsInOrder(ps, counter) ==
    /\ \A i, j \in 1..Len(ps) : i # j => ps[i].id # ps[j].id
    /\ \A i \in 1..Len(ps) : ps[i].id < counter

\* the next_proj_id of a snapshot is above every projectile id in it
SnapshotInOrder(snap) ==
    \A i \in 1..Len(snap.projectiles) : snap.projectiles[i].id < snap.next_proj_id

\* C37: the ids in the host's projectile list are pairwise distinct and
\* below the host's counter; so are the ids in the client's list, below
\* the client's counter, after the snapshots it has applied; the snapshot
\* the host would send, and the one the client holds, report a counter
\* above every projectile id in them.
C37_IdsBelowCounter ==
    /\ IdsInOrder(projectiles, next_id)
    /\ IdsInOrder(cl.projectiles, cl.next_id)
    /\ SnapshotInOrder(get_network_state(HostState))
    /\ last_received_state # <<>> => SnapshotInOrder(last_received_state[1])

\* C37 witness: the client has applied the snapshot it holds: it lists the
\* projectiles of the snapshot, and its counter stands above the counter
\* the snapshot reports
C37_Witness ==
    /\ applied.count >= 1
    /\ applied.snap = last_received_state
    /\ cl.projectiles # <<>>
    /\ Len(cl.projectiles) = Len(last_received_state[1].projectiles)
    /\ cl.next_id > last_received_state[1].next_proj_id

\* C38: as long as frames keep being run, every projectile in the host's
\* list leaves it: a projectile listed under an id is eventually not
\* listed under it.
C38_EveryProjectilePruned ==
    \A id \in 0..(2 * DrainTicks) :
        (id \in Ids(projectiles)) ~> (id \notin Ids(projectiles))

\* C39: on the host no player ever faces (0, 0): each component of the
\* facing is -1, 0 or 1 and the two are never both 0, so a shot that has
\* reset its cooldown timer always has a direction to fly in.
C39_FacingNeverZero ==
    \A p \in {1, 2} :
        /\ players[p].last_dx \in -1..1
        /\ players[p].last_dy \in -1..1
        /\ ~ZeroFacing(players[p])

\* C39 witness: player 1 has turned to face straight up, then pressed keys
\* that cancel each other and shot: the projectile flies up, along the
\* facing the player kept
C39_Witness ==
    /\ ev.op = "update"
    /\ players[1].last_dx = 0
    /\ players[1].last_dy = -1
    /\ players[1].last_shot_time = now
    /\ players[1].last_fireball_time = now
    /\ \E i \in 1..Len(projectiles) :
           /\ projectiles[i].owner_id = 1
           /\ projectiles[i].vx = 0
           /\ projectiles[i].vy < 0

====
